---------------------------- MODULE Spec2Model ----------------------------
(***************************************************************************)
(* Model of the acquisition pipeline of src/api/fetch-user-data.js: the    *)
(* request handler, the two listing paginators, the films/diary merge, the *)
(* two chunked enrichers and the Redis cache they share.                   *)
(*                                                                         *)
(* A JavaScript object is a function from property names to values; the   *)
(* object spread {...a, ...b} is Spread(a, b).  A title is a sequence of   *)
(* one-character tokens so that normalizeTitleForSearch works on it.  An   *)
(* action is the code that runs between two awaits: it is taken when the   *)
(* awaited call settles and runs up to the next await.                     *)
(***************************************************************************)
EXTENDS Integers, Sequences, FiniteSets, TLC

VARIABLES
    req,            \* the request: method, query.username, query.forceRefresh
    apiKey,         \* TMDB_API_KEY is set in the environment
    redisOn,        \* getRedisClient() returns a client (url and token are set)
    redis,          \* the key-value store: cache key -> cached value
    pc,             \* the await the handler is suspended at
    page,           \* `page` of the running scrapeFullFilms / scrapeFullDiary
    allEntries,     \* `allEntries` of the running paginator
    filmEntries,    \* handler: filmEntries
    diaryEntries,   \* handler: diaryEntries
    byUri,          \* handler: the Map byUri, its values in insertion order
    i,              \* loop index: the merge loops, the chunk loops
    entries,        \* `entries` of the running enricher
    result,         \* `result` of the running enricher
    tasks,          \* the per-record async tasks of the current chunk
    how,            \* history: how each record of `result` got its fields
    responses,      \* what has been sent on `res`, in order
    did,            \* history: the kinds of outbound operation issued so far
    trail,          \* history: the points the handler has passed, in order
    steps,          \* history: the number of awaits that have settled
    now,            \* the clock of the store, in seconds
    expiry,         \* the store: cache key -> the time its entry expires at
    version,        \* the CACHE_VERSION of the deployed source
    fetched         \* history: per listing, the requests made for its last page

vars == <<req, apiKey, redisOn, redis, pc, page, allEntries, filmEntries,
          diaryEntries, byUri, i, entries, result, tasks, how, responses, did,
          trail, steps, now, expiry, version, fetched>>

---------------------------------------------------------------------------
(* Bounds of the model *)

MaxGrid == 2        \* longest grid list the merge is run on
MaxLog == 2         \* longest log list the merge is run on
MaxSitePages == 2   \* pages one listing of the site has at most
MaxTitleLen == 3    \* longest title that is normalized
MaxListed == 3      \* pages of a long listing that hold a film

(* Constants of the program *)

CHUNK_SIZE == 3
FilmsMaxPages == 20
DiaryMaxPages == 10
CACHE_VERSION == "v2"
LETTERBOXD_BASE == "https://letterboxd.com"

---------------------------------------------------------------------------
(* Objects and sequences *)

Spread(a, b) ==
    [k \in DOMAIN a \cup DOMAIN b |-> IF k \in DOMAIN b THEN b[k] ELSE a[k]]

Has(o, k) == k \in DOMAIN o

RECURSIVE SeqsUpTo(_, _)
SeqsUpTo(S, n) ==
    IF n = 0 THEN {<<>>}
    ELSE LET shorter == SeqsUpTo(S, n - 1)
         IN  shorter \cup {Append(s, e) : s \in {t \in shorter : Len(t) = n - 1}, e \in S}

Indices(s) == 1..Len(s)

---------------------------------------------------------------------------
(* Titles: normalizeTitleForSearch *)

Dashes == {"u2012", "u2013", "u2014", "u2015"}
SingleQuotes == {"u2018", "u2019"}
DoubleQuotes == {"u201C", "u201D"}
WhiteSpace == {" ", "tab", "u00A0"}

\* the mutant of ReplaceChar: a curly double quote becomes a curly single
\* quote
ReplaceCharLeavesCurly(c) ==
    IF c \in Dashes THEN "-"
    ELSE IF c \in SingleQuotes THEN "'"
    ELSE IF c \in DoubleQuotes THEN "u2019"
    ELSE c

\* the three character replacements
ReplaceChar(c) ==
    IF c \in Dashes THEN "-"
    ELSE IF c \in SingleQuotes THEN "'"
    ELSE IF c \in DoubleQuotes THEN "dq"
    ELSE c

RECURSIVE CollapseSpaces(_)
CollapseSpaces(s) ==
    IF s = <<>> THEN <<>>
    ELSE IF Head(s) \in WhiteSpace
         THEN LET rest == CollapseSpaces(Tail(s))
              IN  IF rest # <<>> /\ Head(rest) = " " THEN rest ELSE <<" ">> \o rest
         ELSE <<Head(s)>> \o CollapseSpaces(Tail(s))

RECURSIVE TrimLeft(_)
TrimLeft(s) ==
    IF s # <<>> /\ Head(s) \in WhiteSpace THEN TrimLeft(Tail(s)) ELSE s

RECURSIVE TrimRight(_)
TrimRight(s) ==
    IF s # <<>> /\ s[Len(s)] \in WhiteSpace
    THEN TrimRight(SubSeq(s, 1, Len(s) - 1))
    ELSE s

Trim(s) == TrimRight(TrimLeft(s))

normalizeTitleForSearch(name) ==
    IF name = <<>> THEN <<>>
    ELSE Trim(CollapseSpaces([n \in Indices(name) |-> ReplaceChar(name[n])]))

---------------------------------------------------------------------------
(* Cache keys *)

ToLowerCase(u) ==
    IF u = "Bob" THEN "bob" ELSE IF u = "True" THEN "true" ELSE u

\* a URI is kept as written by the page parsers, which prefix LETTERBOXD_BASE;
\* a URI of the model stands for that full URL, and ends with "/" or does not
EndsWithSlash(uri) ==
    uri \in {"/film/a/", "/film/b/", "/film/c/", "/film/d/", "/film/e/", "/film/f/"}

normalizeFilmUrl(letterboxdUri) ==
    IF letterboxdUri = "" THEN ""
    ELSE IF EndsWithSlash(letterboxdUri) THEN letterboxdUri
    ELSE IF letterboxdUri = "/film/a" THEN "/film/a/"
    ELSE letterboxdUri

buildUserCacheKey(username) ==
    <<"letterboxd-stats", CACHE_VERSION, "user", <<ToLowerCase(username)>>>>

buildFilmLetterboxdCacheKey(letterboxdUri) ==
    <<"letterboxd-stats", CACHE_VERSION, "film:lbmeta", <<normalizeFilmUrl(letterboxdUri)>>>>

buildFilmTmdbCacheKey(movie) ==
    LET normalizedName == normalizeTitleForSearch(movie.Name)
    IN  <<"letterboxd-stats", CACHE_VERSION, "film:tmdb",
          <<IF normalizedName # <<>> THEN normalizedName ELSE movie.Name, movie.Year>>>>

---------------------------------------------------------------------------
(* The merge of the handler: byUri is the Map, kept as the sequence of its *)
(* values in insertion order.                                              *)

MapHas(map, key) == \E n \in Indices(map) : map[n].LetterboxdURI = key

MapIndex(map, key) == CHOOSE n \in Indices(map) : map[n].LetterboxdURI = key

MapGet(map, key) == map[MapIndex(map, key)]

\* Map.set: a present key keeps its place, a new key goes last
MapSet(map, key, value) ==
    IF MapHas(map, key)
    THEN [map EXCEPT ![MapIndex(map, key)] = value]
    ELSE Append(map, value)

\* the mutants of the merge steps
SeedEntryKeepsEmptyKey(map, entry) == MapSet(map, entry.LetterboxdURI, entry)

OverlayEntryOverwrites(map, entry) ==
    IF entry.LetterboxdURI = "" THEN map
    ELSE IF ~MapHas(map, entry.LetterboxdURI)
    THEN MapSet(map, entry.LetterboxdURI, entry)
    ELSE LET existing == MapGet(map, entry.LetterboxdURI)
             merged == [existing EXCEPT
                 !.Rating = IF entry.Rating # "" THEN entry.Rating ELSE @,
                 !.Year = IF entry.Year # "" THEN entry.Year ELSE @,
                 !.Date = IF entry.Date # "" THEN entry.Date ELSE @]
         IN  MapSet(map, entry.LetterboxdURI, merged)

OverlayEntryDropsNew(map, entry) ==
    IF entry.LetterboxdURI = "" \/ ~MapHas(map, entry.LetterboxdURI) THEN map
    ELSE LET existing == MapGet(map, entry.LetterboxdURI)
             merged == [existing EXCEPT
                 !.Rating = IF @ = "" /\ entry.Rating # "" THEN entry.Rating ELSE @,
                 !.Year = IF @ = "" /\ entry.Year # "" THEN entry.Year ELSE @,
                 !.Date = IF entry.Date # "" THEN entry.Date ELSE @]
         IN  MapSet(map, entry.LetterboxdURI, merged)

OverlayEntryKeepsFirstDate(map, entry) ==
    IF entry.LetterboxdURI = "" THEN map
    ELSE IF ~MapHas(map, entry.LetterboxdURI)
    THEN MapSet(map, entry.LetterboxdURI, entry)
    ELSE LET existing == MapGet(map, entry.LetterboxdURI)
             merged == [existing EXCEPT
                 !.Rating = IF @ = "" /\ entry.Rating # "" THEN entry.Rating ELSE @,
                 !.Year = IF @ = "" /\ entry.Year # "" THEN entry.Year ELSE @,
                 !.Date = IF @ = "" /\ entry.Date # "" THEN entry.Date ELSE @]
         IN  MapSet(map, entry.LetterboxdURI, merged)

\* one iteration of `for (const entry of filmEntries)`
SeedEntry(map, entry) ==
    IF entry.LetterboxdURI = "" THEN map
    ELSE MapSet(map, entry.LetterboxdURI, entry)

\* one iteration of `for (const entry of diaryEntries)`
OverlayEntry(map, entry) ==
    IF entry.LetterboxdURI = "" THEN map
    ELSE IF ~MapHas(map, entry.LetterboxdURI)
    THEN MapSet(map, entry.LetterboxdURI, entry)
    ELSE LET existing == MapGet(map, entry.LetterboxdURI)
             merged == [existing EXCEPT
                 !.Rating = IF @ = "" /\ entry.Rating # "" THEN entry.Rating ELSE @,
                 !.Year = IF @ = "" /\ entry.Year # "" THEN entry.Year ELSE @,
                 !.Date = IF entry.Date # "" THEN entry.Date ELSE @]
         IN  MapSet(map, entry.LetterboxdURI, merged)

RECURSIVE SeedAll(_, _)
SeedAll(map, list) ==
    IF list = <<>> THEN map ELSE SeedAll(SeedEntry(map, Head(list)), Tail(list))

RECURSIVE OverlayAll(_, _)
OverlayAll(map, list) ==
    IF list = <<>> THEN map ELSE OverlayAll(OverlayEntry(map, Head(list)), Tail(list))

\* the two loops of the handler, run to the end
MergeEntries(films, diary) == OverlayAll(SeedAll(<<>>, films), diary)

---------------------------------------------------------------------------
(* The entries the merge is run on.  scrapeFilmsPage gives every entry the *)
(* Date ''; either parser can leave Year, Rating and the URI empty, and    *)
(* scrapeDiaryPage can leave the Date empty.                               *)

TitleA == <<"a">>
TitleB == <<"b">>

Entry(name, year, date, rating, uri) ==
    [Name |-> name, Year |-> year, Date |-> date, Rating |-> rating, LetterboxdURI |-> uri]

GridEntries ==
    { Entry(TitleA, "2001", "", "4", "/film/a/"),
      Entry(TitleA, "", "", "", "/film/a/"),
      Entry(TitleA, "", "", "4.5", "/film/a/"),
      Entry(TitleB, "1999", "", "2", "/film/c/"),
      Entry(TitleB, "1999", "", "2", "") }

LogEntries ==
    { Entry(TitleB, "2002", "2022-05-01", "3", "/film/a/"),
      Entry(TitleA, "", "", "", "/film/a/"),
      Entry(TitleA, "2002", "2023-01-09", "", "/film/a/"),
      Entry(TitleB, "1999", "2022-05-01", "3", "/film/b/"),
      Entry(TitleA, "", "", "", "/film/b/"),
      Entry(TitleB, "1999", "2023-01-09", "3", "") }

---------------------------------------------------------------------------
(* The values the handler's variables have while only the merge runs *)

Listings == {"films", "diary"}

\* no page of either listing has been requested
NoneFetched == [listing \in Listings |-> 0]

NoRequest ==
    [method |-> "GET", username |-> [type |-> "string", value |-> "Bob"], forceRefresh |-> ""]

EmptyStore == [k \in {} |-> 0]

InitMerge ==
    /\ req = NoRequest
    /\ apiKey = TRUE
    /\ redisOn = FALSE
    /\ redis = EmptyStore
    /\ pc = "seed"
    /\ page = 1
    /\ allEntries = <<>>
    /\ filmEntries \in SeqsUpTo(GridEntries, MaxGrid)
    /\ diaryEntries \in SeqsUpTo(LogEntries, MaxLog)
    /\ byUri = <<>>
    /\ i = 1
    /\ entries = <<>>
    /\ result = <<>>
    /\ tasks = <<>>
    /\ how = <<>>
    /\ responses = <<>>
    /\ did = {}
    /\ trail = <<>>
    /\ steps = 0
    /\ now = 0
    /\ expiry = EmptyStore
    /\ version = CACHE_VERSION
    /\ fetched = NoneFetched

MergeFrame ==
    UNCHANGED <<req, apiKey, redisOn, redis, page, allEntries, filmEntries,
                diaryEntries, entries, result, tasks, how, responses, did, trail,
                steps, now, expiry, version, fetched>>

\* for (const entry of filmEntries) { ... }
SeedStep ==
    /\ pc = "seed"
    /\ i <= Len(filmEntries)
    /\ byUri' = SeedEntry(byUri, filmEntries[i])
    /\ i' = i + 1
    /\ pc' = "seed"
    /\ MergeFrame

SeedEnd ==
    /\ pc = "seed"
    /\ i > Len(filmEntries)
    /\ i' = 1
    /\ pc' = "overlay"
    /\ UNCHANGED byUri
    /\ MergeFrame

\* for (const entry of diaryEntries) { ... }
OverlayStep ==
    /\ pc = "overlay"
    /\ i <= Len(diaryEntries)
    /\ byUri' = OverlayEntry(byUri, diaryEntries[i])
    /\ i' = i + 1
    /\ pc' = "overlay"
    /\ MergeFrame

\* const mergedEntries = Array.from(byUri.values())
OverlayEnd ==
    /\ pc = "overlay"
    /\ i > Len(diaryEntries)
    /\ pc' = "merged"
    /\ UNCHANGED <<byUri, i>>
    /\ MergeFrame

NextMerge == SeedStep \/ SeedEnd \/ OverlayStep \/ OverlayEnd

SpecMerge == InitMerge /\ [][NextMerge]_vars


---------------------------------------------------------------------------
(* What the merge claims speak of, computed from the two input lists alone *)

KeysOf(list) == {list[n].LetterboxdURI : n \in Indices(list)} \ {""}

\* the log entries the overlay loop has been through
ProcessedLog ==
    IF pc = "seed" THEN <<>>
    ELSE IF pc = "overlay" THEN SubSeq(diaryEntries, 1, i - 1)
    ELSE diaryEntries

\* the positions of the entries of a list that carry the key
At(list, key) == {n \in Indices(list) : list[n].LetterboxdURI = key}

Max(S) == CHOOSE n \in S : \A m \in S : m <= n
Min(S) == CHOOSE n \in S : \A m \in S : n <= m

\* the entry the grid list leaves for a key
GridValue(key) == filmEntries[Max(At(filmEntries, key))]

\* the first non-empty Rating (Year) among the entries of a list for a key
FirstRating(list, key) ==
    LET S == {n \in At(list, key) : list[n].Rating # ""}
    IN  IF S = {} THEN "" ELSE list[Min(S)].Rating

FirstYear(list, key) ==
    LET S == {n \in At(list, key) : list[n].Year # ""}
    IN  IF S = {} THEN "" ELSE list[Min(S)].Year

\* the last non-empty Date among the entries of a list for a key
LastDate(list, key) ==
    LET S == {n \in At(list, key) : list[n].Date # ""}
    IN  IF S = {} THEN "" ELSE list[Max(S)].Date

---------------------------------------------------------------------------
(* C1: when the merge has ended, byUri holds exactly one record for each   *)
(* distinct non-empty LetterboxdURI of filmEntries or diaryEntries: no key *)
(* twice, no keyed entry dropped, no record for an entry without a key.    *)
C1_OneRecordPerKey ==
    pc = "merged" =>
        /\ \A m, n \in Indices(byUri) :
               m # n => byUri[m].LetterboxdURI # byUri[n].LetterboxdURI
        /\ {byUri[n].LetterboxdURI : n \in Indices(byUri)}
               = KeysOf(filmEntries) \cup KeysOf(diaryEntries)
        /\ \A n \in Indices(byUri) : byUri[n].LetterboxdURI # ""

\* a key of both lists, a key of the log list only and a grid entry
\* without a key have been merged into two records
C1_Witness ==
    /\ pc = "merged"
    /\ Len(byUri) = 2
    /\ KeysOf(filmEntries) \cap KeysOf(diaryEntries) # {}
    /\ KeysOf(diaryEntries) \ KeysOf(filmEntries) # {}
    /\ \E n \in Indices(filmEntries) : filmEntries[n].LetterboxdURI = ""

(* C2: a Rating or Year the grid gives a key is never replaced by a log    *)
(* entry: throughout the overlay and after it, the record of a key of the  *)
(* grid list has the grid's Rating (Year) when that is non-empty, and      *)
(* otherwise the first non-empty Rating (Year) of the log entries gone     *)
(* through for that key, a log value being taken only into an empty field. *)
(* The grid's value for a key is that of its last grid entry.              *)
C2_GridValueKept ==
    pc \in {"overlay", "merged"} =>
        \A key \in KeysOf(filmEntries) :
            LET grid == GridValue(key)
                rec == MapGet(byUri, key)
            IN  /\ MapHas(byUri, key)
                /\ rec.Rating = IF grid.Rating # "" THEN grid.Rating
                                ELSE FirstRating(ProcessedLog, key)
                /\ rec.Year = IF grid.Year # "" THEN grid.Year
                              ELSE FirstYear(ProcessedLog, key)

\* a rated grid film with a year, logged with another rating and another year
C2_Witness ==
    /\ pc = "merged"
    /\ \E key \in KeysOf(filmEntries) : \E n \in At(diaryEntries, key) :
           /\ GridValue(key).Rating # ""
           /\ GridValue(key).Year # ""
           /\ diaryEntries[n].Rating \notin {"", GridValue(key).Rating}
           /\ diaryEntries[n].Year \notin {"", GridValue(key).Year}

(* C3: a key of the log list alone has a record when the merge has ended;  *)
(* the record has the title of the key's first log entry, the first        *)
(* non-empty Year and Rating and the last non-empty Date of its log        *)
(* entries, and is that log entry itself when the key was logged once.     *)
C3_LogOnlyKeyCarried ==
    pc = "merged" =>
        \A key \in KeysOf(diaryEntries) \ KeysOf(filmEntries) :
            LET rec == MapGet(byUri, key)
                at == At(diaryEntries, key)
            IN  /\ MapHas(byUri, key)
                /\ rec.Name = diaryEntries[Min(at)].Name
                /\ rec.Date = LastDate(diaryEntries, key)
                /\ rec.Year = FirstYear(diaryEntries, key)
                /\ rec.Rating = FirstRating(diaryEntries, key)
                /\ Cardinality(at) = 1 => rec = diaryEntries[Min(at)]

\* a film of the diary alone, with a watch date, beside a film of the grid
C3_Witness ==
    /\ pc = "merged"
    /\ KeysOf(filmEntries) # {}
    /\ \E key \in KeysOf(diaryEntries) \ KeysOf(filmEntries) :
           /\ Cardinality(At(diaryEntries, key)) = 1
           /\ MapGet(byUri, key).Date # ""

(* C4 as stated: the Date of a record is set from every log entry of its   *)
(* key, so it is the Date of the last log entry gone through for the key.  *)
C4_DateOfLastLogEntry ==
    pc \in {"overlay", "merged"} =>
        \A key \in KeysOf(ProcessedLog) :
            MapGet(byUri, key).Date = ProcessedLog[Max(At(ProcessedLog, key))].Date

(* C4 as amended: the Date of a record is set from a log entry of its key  *)
(* only when that entry's Date is non-empty, so it is the Date of the last *)
(* log entry gone through for the key whose Date is non-empty, and is      *)
(* empty when there is none.                                               *)
C4_DateOfLastDatedLogEntry ==
    pc \in {"overlay", "merged"} =>
        \A key \in KeysOf(ProcessedLog) :
            MapGet(byUri, key).Date = LastDate(ProcessedLog, key)

\* a film logged twice, on two different dates
C4_Witness ==
    /\ pc = "merged"
    /\ \E key \in KeysOf(diaryEntries) : \E m, n \in At(diaryEntries, key) :
           /\ m < n
           /\ diaryEntries[m].Date # ""
           /\ diaryEntries[n].Date \notin {"", diaryEntries[m].Date}
           /\ MapGet(byUri, key).Date = diaryEntries[n].Date


---------------------------------------------------------------------------
(* The handler.  Its state is read into a record, the code between two     *)
(* awaits is a function on such records, and Become writes the record back *)

Here ==
    [redis |-> redis, pc |-> pc, page |-> page, allEntries |-> allEntries,
     filmEntries |-> filmEntries, diaryEntries |-> diaryEntries, byUri |-> byUri,
     i |-> i, entries |-> entries, result |-> result, tasks |-> tasks, how |-> how,
     responses |-> responses, did |-> did, trail |-> trail, fetched |-> fetched]

Become(s) ==
    /\ redis' = s.redis
    /\ pc' = s.pc
    /\ page' = s.page
    /\ allEntries' = s.allEntries
    /\ filmEntries' = s.filmEntries
    /\ diaryEntries' = s.diaryEntries
    /\ byUri' = s.byUri
    /\ i' = s.i
    /\ entries' = s.entries
    /\ result' = s.result
    /\ tasks' = s.tasks
    /\ how' = s.how
    /\ responses' = s.responses
    /\ did' = s.did
    /\ trail' = s.trail
    /\ fetched' = s.fetched
    /\ steps' = steps + 1
    /\ UNCHANGED <<req, apiKey, redisOn, now, expiry, version>>

Issue(s, kind) == [s EXCEPT !.did = @ \cup {kind}]

Pass(s, point) == [s EXCEPT !.trail = Append(@, point)]

\* String(req.query.forceRefresh || '').toLowerCase() === 'true'
forceRefresh == ToLowerCase(req.forceRefresh) = "true"

\* the cache key of a task is null without a client
HasCacheKey == redisOn

Put(store, key, value) ==
    [k \in DOMAIN store \cup {key} |-> IF k = key THEN value ELSE store[k]]

\* how an awaited redisClient.get(key) can settle
GetOutcomes(store, key) ==
    {[kind |-> "throw"]}
        \cup (IF key \in DOMAIN store
              THEN {[kind |-> "hit", value |-> store[key]]}
              ELSE {[kind |-> "miss"]})

\* how an awaited redisClient.set(...) can settle
SetOutcomes == {"ok", "throw"}

---------------------------------------------------------------------------
(* Responses *)

NoBody == <<>>

ErrorBody(message) == [error |-> message]

\* res.status(status).json(body), or .end() for an empty body, then return
RespondTwice(s, status, body) ==
    [s EXCEPT !.responses = @ \o <<[status |-> status, body |-> body],
                                   [status |-> status, body |-> body]>>,
              !.pc = "done"]

Respond(s, status, body) ==
    [s EXCEPT !.responses = Append(@, [status |-> status, body |-> body]),
              !.pc = "done"]

\* the catch of the handler's outer try
InternalError(s) ==
    Respond(s, 500, ErrorBody("Internal server error while fetching user data."))

Payload(movies) ==
    [username |-> req.username.value, movies |-> movies, count |-> Len(movies)]

\* after enrichWithTMDB: build the payload, write the whole-user cache, respond
Finish(s) ==
    IF redisOn
    THEN Issue([s EXCEPT !.pc = "userCacheSet"], "set:user")
    ELSE Respond(s, 200, Payload(s.result))

---------------------------------------------------------------------------
(* Per-record tasks of a chunk: pos is the await the task is suspended at  *)

NoVal == <<>>

\* history of a task: how the record got its fields and the value that
\* went through the cache for it: the value a get returned, or the value a
\* set was called with
By(tag) == [by |-> tag, value |-> NoVal]

Cached(value) == [by |-> "cached", value |-> value]

Task(pos, movie, val, by) == [pos |-> pos, movie |-> movie, val |-> val, how |-> by]

\* the kind of outbound operation a task has issued when it waits at pos
Kind(stage, pos) ==
    IF pos = "cacheGet" THEN IF stage = "lb" THEN "get:lb" ELSE "get:tmdb"
    ELSE IF pos = "cacheSet" THEN IF stage = "lb" THEN "set:lb" ELSE "set:tmdb"
    ELSE IF pos = "scrape" THEN "native"
    ELSE "provider"

\* a task returns, or waits for the cache set of what it will return
Settle(t, payload, by) ==
    IF HasCacheKey
    THEN Task("cacheSet", t.movie, payload, by)
    ELSE Task("done", Spread(t.movie, payload), NoVal, by)

Min2(a, b) == IF a <= b THEN a ELSE b

\* the mutant of ChunkOf: the slice runs to the end of the list
ChunkOfRest(list, at) == SubSeq(list, at + 1, Len(list))

\* entries.slice(i, i + CHUNK_SIZE)
ChunkOf(list, at) == SubSeq(list, at + 1, Min2(at + CHUNK_SIZE, Len(list)))

AllDone(ts) == \A n \in Indices(ts) : ts[n].pos = "done"

\* tasks n of the chunk has moved to t; it may have issued an operation
WithTask(s, stage, n, t) ==
    LET moved == [s EXCEPT !.tasks[n] = t]
    IN  IF t.pos = "done" THEN moved ELSE Issue(moved, Kind(stage, t.pos))

\* chunk.map(async (movie) => ...): every task runs up to its first await
StartChunk(s, stage, start) ==
    LET chunk == ChunkOf(s.entries, s.i)
        ts == [n \in Indices(chunk) |-> start[chunk[n]]]
    IN  [s EXCEPT !.tasks = ts,
                  !.pc = IF stage = "lb" THEN "lbChunk" ELSE "tmdbChunk",
                  !.did = @ \cup {Kind(stage, ts[n].pos) :
                                     n \in {m \in Indices(ts) : ts[m].pos # "done"}}]

\* the mutant of JoinChunk: the records of failed tasks are left out
JoinChunkDropsFailed(s, stage) ==
    LET kept == SelectSeq(s.tasks, LAMBDA t : t.how.by # "failed")
    IN  [s EXCEPT !.result = @ \o [n \in Indices(kept) |-> kept[n].movie],
                  !.how = @ \o [n \in Indices(kept) |-> kept[n].how],
                  !.tasks = <<>>,
                  !.pc = IF stage = "lb" THEN "lbDelay" ELSE "tmdbDelay"]

\* Promise.all settles: result.push(...enrichedChunk), then the delay starts
JoinChunk(s, stage) ==
    [s EXCEPT !.result = @ \o [n \in Indices(s.tasks) |-> s.tasks[n].movie],
              !.how = @ \o [n \in Indices(s.tasks) |-> s.tasks[n].how],
              !.tasks = <<>>,
              !.pc = IF stage = "lb" THEN "lbDelay" ELSE "tmdbDelay"]

---------------------------------------------------------------------------
(* searchTMDB and the per-record task of enrichWithTMDB *)

MovieHit ==
    [id |-> 11, poster_path |-> "/p11.jpg", backdrop_path |-> "/b11.jpg",
     original_language |-> "en"]

TvHit ==
    [id |-> 22, media_type |-> "tv", popularity |-> 5, poster_path |-> "/p22.jpg",
     backdrop_path |-> "/b22.jpg", original_language |-> "ja"]

PersonHit == [id |-> 33, media_type |-> "person", popularity |-> 9]

\* data.results of /search/movie and of /search/multi
MovieResults == {<<>>, <<MovieHit>>}
MultiResults == {<<>>, <<PersonHit, TvHit>>}

SearchOutcomes(tier) ==
    {[ok |-> FALSE, results |-> <<>>]}
        \cup {[ok |-> TRUE, results |-> r] :
                 r \in IF tier = "tier3" THEN MultiResults ELSE MovieResults}

MovieDetails ==
    [genres |-> <<"Drama">>, production_countries |-> <<"US">>, runtime |-> 120,
     credits |-> [crew |-> <<[id |-> 1, name |-> "d", job |-> "Director", department |-> "Directing"],
                             [id |-> 2, name |-> "w", job |-> "Writer", department |-> "Writing"]>>,
                  cast |-> <<[id |-> 3, name |-> "c"]>>]]

TvDetails ==
    [genres |-> <<"Animation">>, production_countries |-> <<"JP">>,
     episode_run_time |-> <<45>>,
     credits |-> [crew |-> <<[id |-> 4, name |-> "s", job |-> "Series Director", department |-> "Production"]>>,
                  cast |-> <<>>]]

DetailsOutcomes(mediaType) ==
    {[ok |-> FALSE],
     [ok |-> TRUE, data |-> IF mediaType = "tv" THEN TvDetails ELSE MovieDetails]}

Popularity(r) == IF Has(r, "popularity") THEN r.popularity ELSE 0

\* the mutant of MostPopular: the filtered results are not sorted
FirstListed(filtered) == filtered[1]

\* filtered.sort((a, b) => (b.popularity || 0) - (a.popularity || 0))[0]
MostPopular(filtered) ==
    filtered[CHOOSE n \in Indices(filtered) :
                 \A m \in Indices(filtered) :
                     /\ Popularity(filtered[m]) <= Popularity(filtered[n])
                     /\ m < n => Popularity(filtered[m]) < Popularity(filtered[n])]

IsMovieOrTv(r) == Has(r, "media_type") /\ r.media_type \in {"movie", "tv"}

IsDirector(person) ==
    person.job \in {"Director", "Series Director"} \/ person.department = "Directing"

IdAndName(person) == [id |-> person.id, name |-> person.name]

IdsAndNames(people) == [n \in Indices(people) |-> IdAndName(people[n])]

\* the tmdbPayload of a matched record
TmdbPayload(match, detailsData) ==
    [poster_path |-> match.poster_path,
     backdrop_path |-> match.backdrop_path,
     genres |-> detailsData.genres,
     production_countries |-> detailsData.production_countries,
     original_language |-> match.original_language,
     tmdb_id |-> match.id,
     runtime |-> IF Has(detailsData, "runtime") THEN detailsData.runtime
                 ELSE IF Has(detailsData, "episode_run_time")
                         /\ Len(detailsData.episode_run_time) > 0
                 THEN detailsData.episode_run_time[1]
                 ELSE 0,
     directors |-> IdsAndNames(SelectSeq(detailsData.credits.crew, IsDirector)),
     cast |-> IdsAndNames(SubSeq(detailsData.credits.cast, 1,
                                 Min2(10, Len(detailsData.credits.cast))))]

ProviderMatchFields ==
    {"poster_path", "backdrop_path", "genres", "production_countries",
     "original_language", "tmdb_id", "runtime", "directors", "cast"}

\* the mutant of TmdbFailed: the failure of a provider call goes unmarked
TmdbFailedUnmarked(t) == Settle(t, [notFound |-> TRUE], By("failed"))

\* the mutant of TmdbFailed: the marker is attached and not cached
TmdbFailedUncached(t) == Task("done", Spread(t.movie, [error |-> TRUE]), NoVal, By("failed"))

\* the catch of the per-record try: { error: true }
TmdbFailed(t) == Settle(t, [error |-> TRUE], By("failed"))

\* the mutant of TmdbNotFound: the record is returned as it came
TmdbNotFoundBare(t) == Settle(t, NoVal, By("exhausted"))

\* `if (!match || !mediaType)`: { notFound: true }
TmdbNotFound(t) == Settle(t, [notFound |-> TRUE], By("exhausted"))

\* the mutant of TmdbSearch: the year-scoped search runs for every record
TmdbSearchYearAlways(t) == Task("tier1", t.movie, NoVal, By(""))

\* searchTMDB up to its first search call: tier 1 only with a Year
TmdbSearch(t) ==
    Task(IF t.movie.Year # "" THEN "tier1" ELSE "tier2", t.movie, NoVal, By(""))

\* the task up to its first await
TmdbStart(movie) ==
    IF ~forceRefresh /\ redisOn /\ HasCacheKey
    THEN Task("cacheGet", movie, NoVal, By(""))
    ELSE TmdbSearch(Task("", movie, NoVal, By("")))

\* the mutant of TmdbAfterGet: the value the get returned is not used
TmdbAfterGetIgnoresHit(t, o) == TmdbSearch(t)

\* await redisClient.get(cacheKey) has settled
TmdbAfterGet(t, o) ==
    IF o.kind = "hit"
    THEN Task("done", Spread(t.movie, o.value), NoVal, Cached(o.value))
    ELSE TmdbSearch(t)

\* the mutant of TmdbAfterSearch: a failed movie search counts as an
\* empty one and the next tier is tried
TmdbAfterSearchTriesOn(t, o) ==
    IF t.pos \in {"tier1", "tier2"}
    THEN IF o.ok /\ Len(o.results) > 0
         THEN Task("details", t.movie, [match |-> o.results[1], mediaType |-> "movie"], By(""))
         ELSE Task(IF t.pos = "tier1" THEN "tier2" ELSE "tier3", t.movie, NoVal, By(""))
    ELSE IF ~o.ok THEN TmdbFailed(t)
    ELSE LET filtered == SelectSeq(o.results, IsMovieOrTv)
         IN  IF Len(filtered) > 0
             THEN Task("details", t.movie,
                       [match |-> MostPopular(filtered),
                        mediaType |-> MostPopular(filtered).media_type], By(""))
             ELSE TmdbNotFound(t)

\* a search call of searchTMDB has settled
TmdbAfterSearch(t, o) ==
    IF ~o.ok THEN TmdbFailed(t)
    ELSE IF t.pos \in {"tier1", "tier2"}
    THEN IF Len(o.results) > 0
         THEN Task("details", t.movie, [match |-> o.results[1], mediaType |-> "movie"], By(""))
         ELSE Task(IF t.pos = "tier1" THEN "tier2" ELSE "tier3", t.movie, NoVal, By(""))
    ELSE LET filtered == SelectSeq(o.results, IsMovieOrTv)
         IN  IF Len(filtered) > 0
             THEN LET best == MostPopular(filtered)
                  IN  Task("details", t.movie,
                           [match |-> best, mediaType |-> best.media_type], By(""))
             ELSE TmdbNotFound(t)

\* the details call has settled
TmdbAfterDetails(t, o) ==
    IF ~o.ok THEN TmdbFailed(t)
    ELSE Settle(t, TmdbPayload(t.val.match, o.data), By("matched"))

\* await redisClient.set(cacheKey, tmdbPayload, ...) has settled
\* the history keeps the value the set was called with
AfterSet(t) ==
    Task("done", Spread(t.movie, t.val), NoVal, [by |-> t.how.by, value |-> t.val])

\* the chunk loop of enrichWithTMDB, at its loop test
TmdbLoop(s) ==
    IF s.i < Len(s.entries)
    THEN StartChunk(s, "tmdb", [m \in {s.entries[n] : n \in Indices(s.entries)} |-> TmdbStart(m)])
    ELSE Finish(Pass(s, "tmdbDone"))

\* the mutant of enrichWithTMDB: the list goes to the whole-user cache and
\* to the response before any record has been through the provider
enrichWithTMDBCachesFirst(s, list) ==
    IF ~apiKey THEN InternalError(Pass(s, "tmdbThrew"))
    ELSE Finish([s EXCEPT !.entries = list, !.result = list, !.how = <<>>, !.i = 0])

enrichWithTMDB(s, list) ==
    IF ~apiKey THEN InternalError(Pass(s, "tmdbThrew"))
    ELSE TmdbLoop([s EXCEPT !.entries = list, !.result = <<>>, !.how = <<>>, !.i = 0])

---------------------------------------------------------------------------
(* scrapeLetterboxdFilmMeta and the per-record task of                     *)
(* enrichWithLetterboxdDetails                                             *)

EmptyMeta ==
    [lbCast |-> <<>>, lbCrew |-> <<>>, lbStudios |-> <<>>, lbCountries |-> <<>>,
     lbGenres |-> <<>>, lbThemes |-> <<>>, lbPosterUrl |-> "null"]

\* what the four pages of a film parse to
ScrapedMeta ==
    [lbCast |-> <<"actor">>, lbCrew |-> <<"director">>, lbStudios |-> <<"studio">>,
     lbCountries |-> <<"USA">>, lbGenres |-> <<"Drama">>, lbThemes |-> <<>>,
     lbPosterUrl |-> "poster.jpg"]

ScrapeOutcomes == {"ok", "fail"}

\* const urls = { main, crew, details, genres }: the pages one scrape
\* requests at once, each by its own fetchHtml under one Promise.all
ScrapeUrls == {"main", "crew", "details", "genres"}

\* Promise.all of the four fetchHtml calls has settled
scrapeLetterboxdFilmMeta(letterboxdUri, o) ==
    IF normalizeFilmUrl(letterboxdUri) = "" THEN EmptyMeta
    ELSE IF o = "ok" THEN ScrapedMeta
    ELSE EmptyMeta

LbStart(movie) ==
    IF movie.LetterboxdURI = "" THEN Task("done", movie, NoVal, By("skipped"))
    ELSE IF ~forceRefresh /\ redisOn /\ HasCacheKey
    THEN Task("cacheGet", movie, NoVal, By(""))
    ELSE Task("scrape", movie, NoVal, By(""))

LbAfterGet(t, o) ==
    IF o.kind = "hit"
    THEN Task("done", Spread(t.movie, o.value), NoVal, Cached(o.value))
    ELSE Task("scrape", t.movie, NoVal, By(""))

\* the mutant of LbAfterScrape: a failed scrape marks the record
LbAfterScrapeMarks(t, o) ==
    IF o = "ok"
    THEN Settle(t, scrapeLetterboxdFilmMeta(t.movie.LetterboxdURI, o), By("scraped"))
    ELSE Settle(t, [error |-> TRUE], By("unreachable"))

LbAfterScrape(t, o) ==
    Settle(t, scrapeLetterboxdFilmMeta(t.movie.LetterboxdURI, o),
           IF o = "ok" THEN By("scraped") ELSE By("unreachable"))

\* the mutant of LbLoop: the list is handed to the provider stage before
\* the native-detail stage has been through it
LbLoopHandsOverEarly(s) == enrichWithTMDB(Pass(s, "nativeDone"), s.entries)

\* the chunk loop of enrichWithLetterboxdDetails, at its loop test
LbLoop(s) ==
    IF s.i < Len(s.entries)
    THEN StartChunk(s, "lb", [m \in {s.entries[n] : n \in Indices(s.entries)} |-> LbStart(m)])
    ELSE enrichWithTMDB(Pass(s, "nativeDone"), s.result)

enrichWithLetterboxdDetails(s, list) ==
    LbLoop([s EXCEPT !.entries = list, !.result = <<>>, !.how = <<>>, !.i = 0])

---------------------------------------------------------------------------
(* The handler after the two paginations *)

NotFoundBody ==
    ErrorBody("No films or diary entries found. Profile may be private or username invalid.")

\* the mutant of AfterScrape: no 404 branch
AfterScrapeNo404(s) ==
    LET merged == MergeEntries(s.filmEntries, s.diaryEntries)
    IN  enrichWithLetterboxdDetails(Pass([s EXCEPT !.byUri = merged], "merged"), merged)

\* from `if (!filmEntries.length && !diaryEntries.length)` to the first await
AfterScrape(s) ==
    IF s.filmEntries = <<>> /\ s.diaryEntries = <<>>
    THEN Respond(s, 404, NotFoundBody)
    ELSE LET merged == MergeEntries(s.filmEntries, s.diaryEntries)
         IN  enrichWithLetterboxdDetails(Pass([s EXCEPT !.byUri = merged], "merged"), merged)

---------------------------------------------------------------------------
(* The listings of the site.  Page n of a listing parses to the entries of  *)
(* the site's page n or, its markup being unexpected, to none.  The grid   *)
(* has film a and, on page 2, an item without a link; the diary has film a *)
(* and a film b without a year.                                            *)

GridSite ==
    << << Entry(TitleA, "2001", "", "4", "/film/a/") >>,
       << Entry(TitleB, "1999", "", "2", "") >> >>

DiarySite ==
    << << Entry(TitleA, "2002", "2023-01-09", "", "/film/a/"),
          Entry(TitleB, "", "2022-05-01", "3", "/film/b/") >> >>

PageOf(site, n) == IF n \in Indices(site) THEN {<<>>, site[n]} ELSE {<<>>}

\* how the fetch and parse of page n of a listing can settle: the fetch
\* fails, or the page parses to entries and a has-next flag
PageOutcomes(site, n) ==
    {[ok |-> FALSE, entries |-> <<>>, hasNext |-> FALSE]}
        \cup {[ok |-> TRUE, entries |-> es, hasNext |-> more] :
                 es \in PageOf(site, n), more \in {b \in BOOLEAN : b => n < MaxSitePages}}

\* fetchHtml(url) of page s.page of a listing up to its `await fetch(...)`:
\* the first request for that page
Fetch(s, kind) == Issue([s EXCEPT !.fetched[kind] = 1], "page")

\* scrapeFullFilms / scrapeFullDiary up to the fetch of page 1
StartPages(s, kind) ==
    Fetch([s EXCEPT !.page = 1, !.allEntries = <<>>,
                    !.pc = IF kind = "films" THEN "filmsPage" ELSE "diaryPage"], kind)

\* scrapeFullDiary has returned
DiaryReturns(s, list) ==
    AfterScrape(Pass([s EXCEPT !.diaryEntries = list, !.allEntries = <<>>], "diaryScraped"))

\* scrapeDiaryPage has settled in scrapeFullDiary
AfterDiaryPage(s, o) ==
    IF ~o.ok THEN InternalError(Pass(s, "diaryThrew"))
    ELSE IF o.entries = <<>> /\ s.page = 1 THEN DiaryReturns(s, s.allEntries)
    ELSE LET all == s.allEntries \o o.entries
         IN  IF ~o.hasNext \/ s.page + 1 > DiaryMaxPages
             THEN DiaryReturns(s, all)
             ELSE Fetch([s EXCEPT !.allEntries = all, !.page = @ + 1], "diary")

\* scrapeFullFilms has returned or thrown: the diary is scraped next
FilmsReturn(s, list, point) ==
    StartPages(Pass([s EXCEPT !.filmEntries = list], point), "diary")

\* the mutant of AfterFilmsPage: the loop runs while the page has a next one
AfterFilmsPageNoCap(s, o) ==
    IF ~o.ok THEN FilmsReturn(s, <<>>, "filmsThrew")
    ELSE LET all == s.allEntries \o o.entries
         IN  IF ~o.hasNext
             THEN FilmsReturn(s, all, "filmsScraped")
             ELSE Fetch([s EXCEPT !.allEntries = all, !.page = @ + 1], "films")

\* scrapeFilmsPage has settled in scrapeFullFilms
AfterFilmsPage(s, o) ==
    IF ~o.ok THEN FilmsReturn(s, <<>>, "filmsThrew")
    ELSE LET all == s.allEntries \o o.entries
         IN  IF ~o.hasNext \/ s.page + 1 > FilmsMaxPages
             THEN FilmsReturn(s, all, "filmsScraped")
             ELSE Fetch([s EXCEPT !.allEntries = all, !.page = @ + 1], "films")

---------------------------------------------------------------------------
(* The handler up to its first await *)

ValidUsername == req.username.type = "string" /\ req.username.value # ""

\* the mutant of Validate: the username is checked before the method
ValidateUsernameFirst(s) ==
    IF req.method = "OPTIONS" THEN Respond(s, 200, NoBody)
    ELSE IF ~ValidUsername
    THEN Respond(s, 400, ErrorBody("Missing or invalid username parameter."))
    ELSE IF req.method # "GET"
    THEN Respond(s, 405, ErrorBody("Method not allowed. Use GET."))
    ELSE IF ~forceRefresh /\ redisOn
    THEN Issue(Pass([s EXCEPT !.pc = "userCacheGet"], "userCacheGet"), "get:user")
    ELSE StartPages(s, "films")

\* the mutant of Validate: the whole-user cache is read whatever forceRefresh
ValidateIgnoresForceRefresh(s) ==
    IF req.method = "OPTIONS" THEN Respond(s, 200, NoBody)
    ELSE IF req.method # "GET"
    THEN Respond(s, 405, ErrorBody("Method not allowed. Use GET."))
    ELSE IF ~ValidUsername
    THEN Respond(s, 400, ErrorBody("Missing or invalid username parameter."))
    ELSE IF redisOn
    THEN Issue(Pass([s EXCEPT !.pc = "userCacheGet"], "userCacheGet"), "get:user")
    ELSE StartPages(s, "films")

Validate(s) ==
    IF req.method = "OPTIONS" THEN Respond(s, 200, NoBody)
    ELSE IF req.method # "GET"
    THEN Respond(s, 405, ErrorBody("Method not allowed. Use GET."))
    ELSE IF ~ValidUsername
    THEN Respond(s, 400, ErrorBody("Missing or invalid username parameter."))
    ELSE IF ~forceRefresh /\ redisOn
    THEN Issue(Pass([s EXCEPT !.pc = "userCacheGet"], "userCacheGet"), "get:user")
    ELSE StartPages(s, "films")

\* the mutant of AfterUserCacheGet: a get that throws reaches the outer catch
AfterUserCacheGetThrowIsFatal(s, o) ==
    IF o.kind = "throw" THEN InternalError(s)
    ELSE IF o.kind = "hit" /\ Has(o.value, "movies")
    THEN Respond(Pass(s, "userCacheHit"), 200, o.value)
    ELSE StartPages(s, "films")

\* await redisClient.get(cacheKey) of the handler has settled
AfterUserCacheGet(s, o) ==
    IF o.kind = "hit" /\ Has(o.value, "movies")
    THEN Respond(Pass(s, "userCacheHit"), 200, o.value)
    ELSE StartPages(s, "films")


---------------------------------------------------------------------------
(* The requests, the environment and the store the handler starts from *)

Usernames ==
    { [type |-> "undefined", value |-> ""],
      [type |-> "string", value |-> ""],
      [type |-> "string", value |-> "Bob"],
      [type |-> "object", value |-> "Bob"] }

Requests ==
    [method : {"GET", "OPTIONS", "POST"}, username : Usernames, forceRefresh : {"", "True"}]

\* what an earlier run for the same user has left in the store: film a was
\* scraped and not matched, a provider call failed for a film b of 1999
WarmRecord ==
    Spread(Spread(Entry(TitleA, "2001", "", "4", "/film/a/"), ScrapedMeta),
           [notFound |-> TRUE])

WarmStore ==
    Put(Put(Put(Put(EmptyStore,
        buildUserCacheKey("Bob"),
            [username |-> "Bob", movies |-> <<WarmRecord>>, count |-> 1]),
        buildFilmLetterboxdCacheKey("/film/a/"), ScrapedMeta),
        buildFilmTmdbCacheKey(Entry(TitleA, "2001", "", "4", "/film/a/")),
            [notFound |-> TRUE]),
        buildFilmTmdbCacheKey(Entry(TitleB, "1999", "", "", "/film/b/")),
            [error |-> TRUE])

Init ==
    /\ req \in Requests
    /\ apiKey \in BOOLEAN
    /\ redisOn \in BOOLEAN
    /\ redis \in IF redisOn THEN {EmptyStore, WarmStore} ELSE {EmptyStore}
    /\ pc = "start"
    /\ page = 1
    /\ allEntries = <<>>
    /\ filmEntries = <<>>
    /\ diaryEntries = <<>>
    /\ byUri = <<>>
    /\ i = 0
    /\ entries = <<>>
    /\ result = <<>>
    /\ tasks = <<>>
    /\ how = <<>>
    /\ responses = <<>>
    /\ did = {}
    /\ trail = <<>>
    /\ steps = 0
    /\ now = 0
    /\ expiry = EmptyStore
    /\ version = CACHE_VERSION
    /\ fetched = NoneFetched

---------------------------------------------------------------------------
(* The actions: one for each await of the handler and of its tasks *)

Start ==
    /\ pc = "start"
    /\ Become(Validate(Here))

UserCacheGetDone ==
    /\ pc = "userCacheGet"
    /\ \E o \in GetOutcomes(redis, buildUserCacheKey(req.username.value)) :
           Become(AfterUserCacheGet(Here, o))

FilmsPageDone ==
    /\ pc = "filmsPage"
    /\ \E o \in PageOutcomes(GridSite, page) : Become(AfterFilmsPage(Here, o))

DiaryPageDone ==
    /\ pc = "diaryPage"
    /\ \E o \in PageOutcomes(DiarySite, page) : Become(AfterDiaryPage(Here, o))

Waits(stage, n, positions) ==
    /\ pc = IF stage = "lb" THEN "lbChunk" ELSE "tmdbChunk"
    /\ n \in Indices(tasks)
    /\ tasks[n].pos \in positions

\* the store after an awaited set of a task's value has settled
AfterStoreSet(key, value, o) == IF o = "ok" THEN Put(redis, key, value) ELSE redis

LbCacheGetDone(n) ==
    /\ Waits("lb", n, {"cacheGet"})
    /\ \E o \in GetOutcomes(redis, buildFilmLetterboxdCacheKey(tasks[n].movie.LetterboxdURI)) :
           Become(WithTask(Here, "lb", n, LbAfterGet(tasks[n], o)))

LbScrapeDone(n) ==
    /\ Waits("lb", n, {"scrape"})
    /\ \E o \in ScrapeOutcomes :
           Become(WithTask(Here, "lb", n, LbAfterScrape(tasks[n], o)))

LbCacheSetDone(n) ==
    /\ Waits("lb", n, {"cacheSet"})
    /\ \E o \in SetOutcomes :
           Become(WithTask(
               [Here EXCEPT !.redis = AfterStoreSet(
                    buildFilmLetterboxdCacheKey(tasks[n].movie.LetterboxdURI),
                    tasks[n].val, o)],
               "lb", n, AfterSet(tasks[n])))

LbChunkDone ==
    /\ pc = "lbChunk"
    /\ AllDone(tasks)
    /\ Become(JoinChunk(Here, "lb"))

\* the 200 ms delay has passed: i += CHUNK_SIZE and the loop test
LbDelayDone ==
    /\ pc = "lbDelay"
    /\ Become(LbLoop([Here EXCEPT !.i = @ + CHUNK_SIZE]))

TmdbCacheGetDone(n) ==
    /\ Waits("tmdb", n, {"cacheGet"})
    /\ \E o \in GetOutcomes(redis, buildFilmTmdbCacheKey(tasks[n].movie)) :
           Become(WithTask(Here, "tmdb", n, TmdbAfterGet(tasks[n], o)))

TmdbSearchDone(n) ==
    /\ Waits("tmdb", n, {"tier1", "tier2", "tier3"})
    /\ \E o \in SearchOutcomes(tasks[n].pos) :
           Become(WithTask(Here, "tmdb", n, TmdbAfterSearch(tasks[n], o)))

TmdbDetailsDone(n) ==
    /\ Waits("tmdb", n, {"details"})
    /\ \E o \in DetailsOutcomes(tasks[n].val.mediaType) :
           Become(WithTask(Here, "tmdb", n, TmdbAfterDetails(tasks[n], o)))

TmdbCacheSetDone(n) ==
    /\ Waits("tmdb", n, {"cacheSet"})
    /\ \E o \in SetOutcomes :
           Become(WithTask(
               [Here EXCEPT !.redis = AfterStoreSet(
                    buildFilmTmdbCacheKey(tasks[n].movie), tasks[n].val, o)],
               "tmdb", n, AfterSet(tasks[n])))

TmdbChunkDone ==
    /\ pc = "tmdbChunk"
    /\ AllDone(tasks)
    /\ Become(JoinChunk(Here, "tmdb"))

\* the 300 ms delay has passed: i += CHUNK_SIZE and the loop test
TmdbDelayDone ==
    /\ pc = "tmdbDelay"
    /\ Become(TmdbLoop([Here EXCEPT !.i = @ + CHUNK_SIZE]))

\* await redisClient.set(cacheKey, payload, ...) of the handler has settled
UserCacheSetDone ==
    /\ pc = "userCacheSet"
    /\ \E o \in SetOutcomes :
           Become(Respond(
               Pass([Here EXCEPT !.redis = AfterStoreSet(
                         buildUserCacheKey(req.username.value), Payload(result), o)],
                    IF o = "ok" THEN "userCacheSet" ELSE "userCacheSetThrew"),
               200, Payload(result)))

Next ==
    \/ Start
    \/ UserCacheGetDone
    \/ FilmsPageDone
    \/ DiaryPageDone
    \/ \E n \in 1..CHUNK_SIZE : LbCacheGetDone(n)
    \/ \E n \in 1..CHUNK_SIZE : LbScrapeDone(n)
    \/ \E n \in 1..CHUNK_SIZE : LbCacheSetDone(n)
    \/ LbChunkDone
    \/ LbDelayDone
    \/ \E n \in 1..CHUNK_SIZE : TmdbCacheGetDone(n)
    \/ \E n \in 1..CHUNK_SIZE : TmdbSearchDone(n)
    \/ \E n \in 1..CHUNK_SIZE : TmdbDetailsDone(n)
    \/ \E n \in 1..CHUNK_SIZE : TmdbCacheSetDone(n)
    \/ TmdbChunkDone
    \/ TmdbDelayDone
    \/ UserCacheSetDone

Spec == Init /\ [][Next]_vars

---------------------------------------------------------------------------
(* What the claims about the handler speak of *)

InTrail(point) == \E n \in Indices(trail) : trail[n] = point

Answered(status) == Len(responses) = 1 /\ responses[1].status = status

CacheWrites == {"set:lb", "set:tmdb", "set:user"}

EnrichmentCalls == {"native", "provider"}

ValidGet == req.method = "GET" /\ ValidUsername

\* the provider stage has run or is running: result[n] is the record made
\* of entries[n], and how[n] tells what made it
InTmdbStage ==
    \/ pc \in {"tmdbChunk", "tmdbDelay", "userCacheSet"}
    \/ pc = "done" /\ InTrail("tmdbDone")

RECURSIVE Flatten(_)
Flatten(pages) == IF pages = <<>> THEN <<>> ELSE Head(pages) \o Flatten(Tail(pages))

SiteKeys == KeysOf(Flatten(GridSite) \o Flatten(DiarySite))

\* the awaits one request can go through: the first step and the two cache
\* accesses of the handler, the pages of the two listings, per record a
\* cache get, a scrape and a cache set, then a cache get, three searches, a
\* details call and a cache set, per chunk of each stage a join and a delay
StepBound ==
    3 + Min2(MaxSitePages, FilmsMaxPages) + Min2(MaxSitePages, DiaryMaxPages)
      + 9 * Cardinality(SiteKeys)
      + 4 * ((Cardinality(SiteKeys) + CHUNK_SIZE - 1) \div CHUNK_SIZE)

---------------------------------------------------------------------------
\* C5: once both listings have returned zero entries the handler has
\* answered 404 not-found, has issued no native-detail and no provider call,
\* and has written to no cache scope: the store is the one it started from.
C5_BothEmptyIs404 ==
    (InTrail("diaryScraped") /\ filmEntries = <<>> /\ diaryEntries = <<>>)
        => /\ pc = "done"
           /\ responses = <<[status |-> 404, body |-> NotFoundBody]>>
           /\ did \cap (EnrichmentCalls \cup CacheWrites \cup {"get:lb", "get:tmdb"}) = {}
           /\ redis \in {EmptyStore, WarmStore}

\* both listings were fetched and parsed to nothing, and the answer is 404
C5_Witness ==
    /\ InTrail("filmsScraped") /\ InTrail("diaryScraped")
    /\ filmEntries = <<>> /\ diaryEntries = <<>>
    /\ Answered(404)

\* C6: when the pagination of exactly one listing has failed and the other
\* listing has returned entries, the request is not answered with an error
\* status (with the provider credential present it ends in 200).
C6_OneListingFailureIsolated ==
    (/\ pc = "done"
     /\ apiKey
     /\ \/ InTrail("filmsThrew") /\ InTrail("diaryScraped") /\ diaryEntries # <<>>
        \/ InTrail("diaryThrew") /\ InTrail("filmsScraped") /\ filmEntries # <<>>)
        => Answered(200)

\* the grid half of C6, which the handler's try/catch around scrapeFullFilms
\* gives: a grid failure leaves the log listing's entries to be merged
C6_GridFailureIsolated ==
    (pc = "done" /\ apiKey /\ InTrail("filmsThrew") /\ InTrail("diaryScraped")
         /\ diaryEntries # <<>>)
        => /\ Answered(200)
           /\ KeysOf(responses[1].body.movies) = KeysOf(diaryEntries)

---------------------------------------------------------------------------
\* C7 as stated: in the provider stage a record carries notFound:true
\* exactly when all its search tiers returned no result and error:true
\* exactly when one of its provider calls failed, every other record
\* carries the full ProviderMatch fields, and a finished stage is answered
\* 200.
C7_MarkersOnlyFromThisRun ==
    InTmdbStage =>
        /\ \A n \in Indices(result) :
               /\ Has(result[n], "notFound") <=> how[n].by = "exhausted"
               /\ Has(result[n], "error") <=> how[n].by = "failed"
               /\ (~Has(result[n], "notFound") /\ ~Has(result[n], "error"))
                      => ProviderMatchFields \subseteq DOMAIN result[n]
        /\ pc = "done" => Answered(200)

\* C7, amended: the above for every record that was not served from the
\* per-film provider cache; a record served from that cache carries the
\* cached value, its markers included, without any provider call.  Every
\* record keeps the fields it entered the stage with, and a finished stage
\* is answered 200 with these records.
C7_RecordLevelIsolation ==
    InTmdbStage =>
        /\ Len(how) = Len(result)
        /\ \A n \in Indices(result) :
               /\ how[n].by \in {"cached", "exhausted", "failed", "matched"}
               /\ how[n].by = "cached" => result[n] = Spread(entries[n], how[n].value)
               /\ how[n].by = "exhausted"
                      => result[n] = Spread(entries[n], [notFound |-> TRUE])
               /\ how[n].by = "failed"
                      => result[n] = Spread(entries[n], [error |-> TRUE])
               /\ how[n].by = "matched"
                      => /\ ProviderMatchFields \subseteq DOMAIN result[n]
                         /\ ~Has(result[n], "notFound") /\ ~Has(result[n], "error")
                         /\ \A f \in DOMAIN entries[n] \ ProviderMatchFields :
                                result[n][f] = entries[n][f]
        /\ pc = "done" => responses = <<[status |-> 200, body |-> Payload(result)]>>

\* one chunk held a record whose tiers were exhausted next to a record that
\* was matched, and the answer is 200
C7_Witness ==
    /\ pc = "done" /\ InTrail("tmdbDone") /\ Answered(200)
    /\ \E n, m \in Indices(result) :
           /\ how[n].by = "exhausted" /\ Has(result[n], "notFound")
           /\ how[m].by = "matched"

\* C8 as stated, the part about what is sent: every response is 200 with a
\* record list or one of 400, 404, 405, 500 with an error and no list.
C8_ListOrErrorStatus ==
    \A n \in Indices(responses) :
        \/ responses[n].status = 200 /\ Has(responses[n].body, "movies")
        \/ /\ responses[n].status \in {400, 404, 405, 500}
           /\ Has(responses[n].body, "error") /\ ~Has(responses[n].body, "movies")

\* the handler is suspended at an await whose settling is a step: the
\* guard of one of the disjuncts of Next holds (the outcomes each step
\* chooses from always include the failure of the call)
Pending ==
    \/ pc \in {"start", "userCacheGet", "filmsPage", "diaryPage", "lbDelay",
               "tmdbDelay", "userCacheSet"}
    \/ \E n \in 1..CHUNK_SIZE : Waits("lb", n, {"cacheGet", "scrape", "cacheSet"})
    \/ \E n \in 1..CHUNK_SIZE :
           Waits("tmdb", n, {"cacheGet", "tier1", "tier2", "tier3", "details", "cacheSet"})
    \/ pc \in {"lbChunk", "tmdbChunk"} /\ AllDone(tasks)

\* C8, amended: as long as no response was sent an await is pending, and
\* its settling is a step of the handler; a request goes through at most
\* StepBound such steps; the response ends the handler.  So when every
\* outbound call returns or fails, exactly one response is sent.  It
\* is 200 with no body for OPTIONS, 200 with the cached payload on a hit of
\* the whole-user cache, 200 with one record for every merged filmKey, in
\* the order of the merge, or one of 400, 404, 405, 500 with an error and
\* no record list.
C8_ExactlyOneResponse ==
    /\ steps <= StepBound
    /\ pc # "done" => responses = <<>> /\ Pending
    /\ pc = "done" => Len(responses) = 1 /\ ~Pending
    /\ \A n \in Indices(responses) :
           LET r == responses[n]
           IN  \/ req.method = "OPTIONS" /\ r = [status |-> 200, body |-> NoBody]
               \/ /\ r.status = 200 /\ InTrail("userCacheHit")
                  /\ Has(r.body, "movies")
               \/ /\ r.status = 200 /\ InTrail("tmdbDone")
                  /\ Has(r.body, "movies") /\ ~Has(r.body, "error")
                  /\ [m \in Indices(r.body.movies) |-> r.body.movies[m].LetterboxdURI]
                         = [m \in Indices(byUri) |-> byUri[m].LetterboxdURI]
               \/ /\ r.status \in {400, 404, 405, 500}
                  /\ Has(r.body, "error") /\ ~Has(r.body, "movies")

\* a run that has merged two filmKeys, has lost one provider call, and is
\* answered with both records
C8_Witness ==
    /\ pc = "done" /\ Answered(200) /\ InTrail("tmdbDone")
    /\ Len(byUri) = 2 /\ Len(responses[1].body.movies) = 2
    /\ \E n \in Indices(result) : Has(result[n], "error")

---------------------------------------------------------------------------
\* C9: OPTIONS is answered 200 with no body, any other method than GET is
\* answered 405 whatever the query, a GET whose username is missing or not
\* a single string is answered 400, each before any cache or network
\* access; a 200 to a GET carries username, movies and count, and count is
\* the number of elements of movies.
C9_RequestValidation ==
    /\ (pc # "start" /\ req.method = "OPTIONS")
           => /\ responses = <<[status |-> 200, body |-> NoBody]>>
              /\ did = {} /\ redis \in {EmptyStore, WarmStore}
    /\ (pc # "start" /\ req.method \notin {"OPTIONS", "GET"})
           => /\ Answered(405)
              /\ did = {} /\ redis \in {EmptyStore, WarmStore}
    /\ (pc # "start" /\ req.method = "GET" /\ ~ValidUsername)
           => /\ Answered(400)
              /\ did = {} /\ redis \in {EmptyStore, WarmStore}
    /\ \A n \in Indices(responses) :
           (req.method = "GET" /\ responses[n].status = 200)
               => /\ {"username", "movies", "count"} \subseteq DOMAIN responses[n].body
                  /\ responses[n].body.count = Len(responses[n].body.movies)
                  /\ InTrail("tmdbDone")
                         => responses[n].body.username = req.username.value

\* a request with another method and no username was answered 405, and a
\* run that was not served from the cache was answered with two records
C9_Witness ==
    \/ /\ req.method = "POST" /\ ~ValidUsername /\ Answered(405)
    \/ /\ ValidGet /\ Answered(200) /\ InTrail("tmdbDone")
       /\ responses[1].body.count = 2

\* C10: without the provider credential a GET with a valid username reads
\* no cache, fetches no listing page and no native detail, and is answered
\* 500 and nothing else.
C10_MissingKeyIs500First ==
    (ValidGet /\ ~apiKey)
        => /\ did \cap {"get:user", "get:lb", "get:tmdb", "page", "native"} = {}
           /\ pc = "done" => Answered(500)

\* what the handler does instead: the credential is looked at when the
\* provider stage starts, and only a run that reaches it is answered 500
C10_KeyCheckedAtProviderStage ==
    (ValidGet /\ ~apiKey /\ pc = "done")
        => \/ Answered(200) /\ InTrail("userCacheHit")
           \/ Answered(404) /\ filmEntries = <<>> /\ diaryEntries = <<>>
           \/ Answered(500) /\ InTrail("diaryThrew")
           \/ Answered(500) /\ InTrail("tmdbThrew") /\ InTrail("nativeDone")

---------------------------------------------------------------------------
CacheReads == {"get:user", "get:lb", "get:tmdb"}

\* the native-detail stage is running: result[n] is made of entries[n]
InLbStage == pc \in {"lbChunk", "lbDelay"}

\* a request for the same user without forceRefresh, made now, hits the
\* whole-user cache and is answered 200 with the given payload
ServedFromCache(payload) ==
    LET key == buildUserCacheKey(req.username.value)
    IN  /\ key \in DOMAIN redis
        /\ [kind |-> "hit", value |-> redis[key]] \in GetOutcomes(redis, key)
        /\ AfterUserCacheGet([Here EXCEPT !.responses = <<>>, !.pc = "userCacheGet"],
                             [kind |-> "hit", value |-> redis[key]]).responses
               = <<[status |-> 200, body |-> payload]>>

\* C11: in a request with forceRefresh=true no cache get is issued in any
\* of the three scopes; with a cache client, every record that is fetched
\* in a stage has had a cache set called with the value it was given (no
\* record comes from a cache), the whole-user set is issued before the 200,
\* and once that set has succeeded a request for the same user without
\* forceRefresh is served the same payload from the cache.
C11_ForceRefreshSkipsGetsOnly ==
    (ValidGet /\ forceRefresh) =>
        /\ did \cap CacheReads = {}
        /\ ~InTrail("userCacheGet") /\ ~InTrail("userCacheHit")
        /\ redisOn =>
            /\ (InLbStage \/ InTmdbStage) =>
                   \A n \in Indices(result) :
                       /\ how[n].by # "cached"
                       /\ how[n].by # "skipped" =>
                              /\ how[n].value # NoVal
                              /\ result[n] = Spread(entries[n], how[n].value)
            /\ (InLbStage /\ result # <<>>) => "set:lb" \in did
            /\ (InTmdbStage /\ result # <<>>) => {"set:lb", "set:tmdb"} \subseteq did
            /\ (pc = "done" /\ Answered(200)) =>
                   /\ "set:user" \in did
                   /\ InTrail("userCacheSet") \/ InTrail("userCacheSetThrew")
            /\ InTrail("userCacheSet") => ServedFromCache(Payload(result))

\* a forceRefresh run over a store that held the user's payload has fetched
\* two records anew and has replaced the payload
C11_Witness ==
    /\ ValidGet /\ forceRefresh /\ redisOn
    /\ pc = "done" /\ InTrail("userCacheSet")
    /\ Len(result) = 2
    /\ redis[buildUserCacheKey(req.username.value)].count = 2
    /\ buildFilmTmdbCacheKey(result[2]) \in DOMAIN redis

---------------------------------------------------------------------------
CacheOps == CacheReads \cup CacheWrites

Threw == [kind |-> "throw"]

Missed == [kind |-> "miss"]

\* the values the network path of a stage can give a record
NativeNetworkValues == {ScrapedMeta, EmptyMeta}

ProviderNetworkValues ==
    {[notFound |-> TRUE], [error |-> TRUE]}
        \cup {TmdbPayload(m, d) : m \in {MovieHit, TvHit}, d \in {MovieDetails, TvDetails}}

NetworkValues == IF InLbStage THEN NativeNetworkValues ELSE ProviderNetworkValues

\* C12: cache operations are best-effort in every scope.  Wherever a get
\* is awaited, its throwing leaves the handler or the task where a miss
\* leaves it.  A record that did not come from a cache is its entry with a
\* value of the network path, whether a set was called for it, succeeded or
\* threw, and a whole-user set that threw is followed by the same 200.
\* Without a client no cache operation is issued, the store is untouched
\* and the records and the response are made the same way.
C12_CacheIsBestEffort ==
    /\ pc = "userCacheGet" => AfterUserCacheGet(Here, Threw) = AfterUserCacheGet(Here, Missed)
    /\ \A n \in Indices(tasks) :
           tasks[n].pos = "cacheGet" =>
               IF pc = "lbChunk"
               THEN LbAfterGet(tasks[n], Threw) = LbAfterGet(tasks[n], Missed)
               ELSE TmdbAfterGet(tasks[n], Threw) = TmdbAfterGet(tasks[n], Missed)
    /\ (InLbStage \/ InTmdbStage) =>
           \A n \in Indices(result) :
               how[n].by \notin {"cached", "skipped"} =>
                   \E v \in NetworkValues :
                       /\ result[n] = Spread(entries[n], v)
                       /\ how[n].value \in {NoVal, v}
    /\ (InTrail("userCacheSet") \/ InTrail("userCacheSetThrew"))
           => responses = <<[status |-> 200, body |-> Payload(result)]>>
    /\ (pc = "done" /\ InTrail("tmdbDone")) => Answered(200)
    /\ ~redisOn =>
           /\ did \cap CacheOps = {}
           /\ redis = EmptyStore
           /\ \A n \in Indices(how) : how[n].by # "cached" /\ how[n].value = NoVal

\* over a store that held the user's payload and film a's provider value,
\* every get and every set has thrown: nothing came from the cache, the
\* store is unchanged, and the answer is the 200 with two records
C12_Witness ==
    /\ redisOn /\ ~forceRefresh /\ redis = WarmStore
    /\ InTrail("userCacheGet") /\ InTrail("userCacheSetThrew")
    /\ Answered(200) /\ Len(result) = 2
    /\ \A n \in Indices(how) : how[n].by # "cached" /\ how[n].value # NoVal

---------------------------------------------------------------------------
Count(point) == Cardinality({n \in Indices(trail) : trail[n] = point})

\* C13: the whole-user cache is read at most once, as the first outbound
\* operation of a request without forceRefresh; a hit is answered 200 with
\* the cached payload and nothing else is issued.  It is written at most
\* once, after the provider stage has given every record, and a request
\* answered with an error status has not written it.
C13_UserCacheOnceEach ==
    /\ Count("userCacheGet") <= 1
    /\ "get:user" \in did <=> InTrail("userCacheGet")
    /\ InTrail("userCacheGet") => trail[1] = "userCacheGet" /\ ~forceRefresh
    /\ pc = "userCacheGet" => did = {"get:user"} /\ steps = 1
    /\ InTrail("userCacheHit") =>
           /\ pc = "done" /\ did = {"get:user"} /\ steps = 2
           /\ trail = <<"userCacheGet", "userCacheHit">>
           /\ redis \in {WarmStore}
           /\ responses = <<[status |-> 200,
                             body |-> redis[buildUserCacheKey(req.username.value)]]>>
    /\ Count("userCacheSet") + Count("userCacheSetThrew") <= 1
    /\ pc = "userCacheSet" => Count("userCacheSet") + Count("userCacheSetThrew") = 0
    /\ "set:user" \in did =>
           /\ InTrail("tmdbDone") /\ pc \in {"userCacheSet", "done"}
           /\ tasks = <<>> /\ Len(result) = Len(byUri)
           /\ \A n \in Indices(how) : how[n].by \in {"cached", "exhausted", "failed", "matched"}
    /\ (pc = "done" /\ ~Answered(200)) => "set:user" \notin did

\* a request was served from the whole-user cache
C13_Witness ==
    /\ InTrail("userCacheHit") /\ Answered(200)
    /\ responses[1].body.count = 1

\* a request has read the whole-user cache, missed, and has written it
C13_WitnessWrite ==
    /\ InTrail("userCacheGet") /\ InTrail("userCacheSet") /\ Len(result) = 2

---------------------------------------------------------------------------
(* The store over time.  Every set of the pipeline passes { ex: ttl }: the *)
(* entry expires ttl seconds after the set.  One request is short against  *)
(* the ttls, so Spec leaves the clock alone; here only the cache calls of  *)
(* the pipeline and the clock are run.                                     *)

USER_CACHE_TTL_SECONDS == 60 * 60 * 6

FILM_LB_CACHE_TTL_SECONDS == 60 * 60 * 24 * 30

FILM_TMDB_CACHE_TTL_SECONDS == 60 * 60 * 24 * 30

Scopes == {"user", "lb", "tmdb"}

\* the mutant of TtlOf: every set is called with the ttl of the film scopes
TtlOfFilmEverywhere(scope) == FILM_LB_CACHE_TTL_SECONDS

\* the `ex` the set of a scope is called with
TtlOf(scope) ==
    IF scope = "user" THEN USER_CACHE_TTL_SECONDS
    ELSE IF scope = "lb" THEN FILM_LB_CACHE_TTL_SECONDS
    ELSE FILM_TMDB_CACHE_TTL_SECONDS

\* the key a scope's get and set are called with, for user Bob and film a
KeyOf(scope) ==
    IF scope = "user" THEN buildUserCacheKey("Bob")
    ELSE IF scope = "lb" THEN buildFilmLetterboxdCacheKey("/film/a/")
    ELSE buildFilmTmdbCacheKey(Entry(TitleA, "2001", "", "4", "/film/a/"))

\* values a scope's set is called with
ValuesOf(scope) ==
    IF scope = "user" THEN {Payload(<<>>), Payload(<<WarmRecord>>)}
    ELSE IF scope = "lb" THEN {ScrapedMeta, EmptyMeta}
    ELSE {[notFound |-> TRUE], [error |-> TRUE]}

\* how an awaited redisClient.get(key) can settle at time t: an entry is
\* there before its expiry time and gone after it
GetOutcomesAt(store, exp, key, t) ==
    {[kind |-> "throw"]}
        \cup (IF key \in DOMAIN store /\ t <= exp[key]
              THEN {[kind |-> "hit", value |-> store[key]]} ELSE {})
        \cup (IF key \notin DOMAIN store \/ t >= exp[key]
              THEN {[kind |-> "miss"]} ELSE {})

\* the times the clock is looked at: around a set and around both ttls
Times ==
    {0, 1} \cup {t + d : t \in {USER_CACHE_TTL_SECONDS, FILM_LB_CACHE_TTL_SECONDS},
                         d \in {-1, 0, 1}}

InitCache ==
    /\ req = NoRequest
    /\ apiKey = TRUE
    /\ redisOn = TRUE
    /\ redis = EmptyStore
    /\ pc = "cache"
    /\ page = 1
    /\ allEntries = <<>>
    /\ filmEntries = <<>>
    /\ diaryEntries = <<>>
    /\ byUri = <<>>
    /\ i = 0
    /\ entries = <<>>
    /\ result = <<>>
    /\ tasks = <<>>
    /\ how = <<>>
    /\ responses = <<>>
    /\ did = {}
    /\ trail = <<>>
    /\ steps = 0
    /\ now = 0
    /\ expiry = EmptyStore
    /\ version = CACHE_VERSION
    /\ fetched = NoneFetched

CacheFrame ==
    UNCHANGED <<req, apiKey, redisOn, pc, page, allEntries, filmEntries, diaryEntries,
                byUri, i, entries, result, tasks, how, responses, steps, version,
                fetched>>

\* await redisClient.set(key, value, { ex: ttl }) of a scope has settled.
\* History: did keeps, per scope, the value and the time of the last set
\* that succeeded; trail, the last get, starts anew.
CacheSetDone ==
    /\ pc = "cache"
    /\ \E scope \in Scopes : \E v \in ValuesOf(scope), o \in SetOutcomes :
           /\ redis' = IF o = "ok" THEN Put(redis, KeyOf(scope), v) ELSE redis
           /\ expiry' = IF o = "ok"
                        THEN Put(expiry, KeyOf(scope), now + TtlOf(scope))
                        ELSE expiry
           /\ did' = IF o = "ok"
                     THEN {e \in did : e.scope # scope}
                              \cup {[scope |-> scope, value |-> v, at |-> now]}
                     ELSE did
    /\ trail' = <<>>
    /\ now' = now
    /\ CacheFrame

\* await redisClient.get(key) of a scope has settled
CacheGetDone ==
    /\ pc = "cache"
    /\ \E scope \in Scopes :
           \E o \in GetOutcomesAt(redis, expiry, KeyOf(scope), now) :
               trail' = <<[scope |-> scope, at |-> now, out |-> o]>>
    /\ UNCHANGED <<redis, expiry, did, now>>
    /\ CacheFrame

\* time passes
Tick ==
    /\ pc = "cache"
    /\ \E t \in Times : t > now /\ now' = t
    /\ UNCHANGED <<redis, expiry, did, trail>>
    /\ CacheFrame

NextCache == CacheSetDone \/ CacheGetDone \/ Tick

SpecCache == InitCache /\ [][NextCache]_vars

SixHours == 6 * 60 * 60

ThirtyDays == 30 * 24 * 60 * 60

\* C14: in each scope, a get that returns after a set of the scope returns
\* the value of the last such set when less than the scope's ttl has passed
\* since that set, and nothing when more has passed (and nothing when there
\* was no set); the ttl is 6 hours in the whole-user scope and 30 days in
\* the two per-film scopes.
C14_RoundTripWithExpiry ==
    pc = "cache" =>
        \A n \in Indices(trail) :
            LET g == trail[n]
                sets == {e \in did : e.scope = g.scope}
                ttl == IF g.scope = "user" THEN SixHours ELSE ThirtyDays
            IN  g.out.kind # "throw" =>
                    /\ sets = {} => g.out.kind = "miss"
                    /\ \A e \in sets :
                           /\ g.at < e.at + ttl => g.out = [kind |-> "hit", value |-> e.value]
                           /\ g.at > e.at + ttl => g.out.kind = "miss"

\* the whole-user payload set at time 0 was returned just before six hours
\* had passed
C14_Witness ==
    /\ pc = "cache"
    /\ \E n \in Indices(trail) :
           /\ trail[n].scope = "user" /\ trail[n].at = SixHours - 1
           /\ trail[n].out = [kind |-> "hit", value |-> Payload(<<WarmRecord>>)]
    /\ \E e \in did : e.scope = "user" /\ e.at = 0

\* a per-film provider value set at time 0 was gone after thirty days
C14_WitnessExpired ==
    /\ pc = "cache"
    /\ \E n \in Indices(trail) :
           /\ trail[n].scope = "tmdb" /\ trail[n].at = ThirtyDays + 1
           /\ trail[n].out.kind = "miss"
    /\ \E e \in did : e.scope = "tmdb" /\ e.at = 0

---------------------------------------------------------------------------
(* Outbound calls in flight.  A task of a chunk waits on one cache call,   *)
(* on one provider call, or on the Promise.all of a scrape, which holds    *)
(* one page request for each of ScrapeUrls.  Cache calls are not counted:  *)
(* the lookup comes before the network call of a record.                   *)

CallsOf(t) ==
    IF t.pos = "scrape"
    THEN IF normalizeFilmUrl(t.movie.LetterboxdURI) = "" THEN 0
         ELSE Cardinality(ScrapeUrls)
    ELSE IF t.pos \in {"tier1", "tier2", "tier3", "details"} THEN 1
    ELSE 0

RECURSIVE SumCalls(_)
SumCalls(ts) == IF ts = <<>> THEN 0 ELSE CallsOf(Head(ts)) + SumCalls(Tail(ts))

InFlight == IF pc \in {"lbChunk", "tmdbChunk"} THEN SumCalls(tasks) ELSE 0

\* C15: during a run of the native-detail enricher and of the provider
\* enricher, the outbound network calls in flight at one time never
\* exceed the chunk size K = 3.
C15_InFlightAtMostChunkSize == InFlight <= CHUNK_SIZE

\* the provider half: at most one search or details call per record of a
\* chunk, and a chunk holds at most CHUNK_SIZE records
C15_ProviderInFlightBounded ==
    pc = "tmdbChunk" => InFlight <= Len(tasks) /\ Len(tasks) <= CHUNK_SIZE

---------------------------------------------------------------------------
(* The provider match of one record, with the log of its search calls.    *)
(* trail keeps every settled search call: its tier and what it returned.   *)

Tiers == {"tier1", "tier2", "tier3"}

SearchYears == {"", "1999", "2001"}

\* the records the match is run for
SearchMovies ==
    {Entry(name, year, "", "", "/film/a/") : name \in {TitleA, TitleB}, year \in SearchYears}

InitSearch ==
    /\ req = NoRequest
    /\ apiKey = TRUE
    /\ redisOn \in BOOLEAN
    /\ redis = EmptyStore
    /\ pc = "search"
    /\ page = 1
    /\ allEntries = <<>>
    /\ filmEntries = <<>>
    /\ diaryEntries = <<>>
    /\ byUri = <<>>
    /\ i = 0
    /\ \E movie \in SearchMovies : entries = <<movie>>
    /\ result = <<>>
    /\ tasks = <<>>
    /\ how = <<>>
    /\ responses = <<>>
    /\ did = {}
    /\ trail = <<>>
    /\ steps = 0
    /\ now = 0
    /\ expiry = EmptyStore
    /\ version = CACHE_VERSION
    /\ fetched = NoneFetched

SearchFrame ==
    UNCHANGED <<req, apiKey, redisOn, pc, page, allEntries, filmEntries, diaryEntries,
                byUri, i, entries, result, how, responses, did, steps, now, expiry,
                version, fetched>>

\* `await searchTMDB(movie)` is entered: it runs up to its first search call
SearchStart ==
    /\ pc = "search" /\ tasks = <<>>
    /\ tasks' = <<TmdbSearch(Task("", entries[1], NoVal, By("")))>>
    /\ UNCHANGED <<redis, trail>>
    /\ SearchFrame

\* a runSearch call has settled
SearchCallDone ==
    /\ pc = "search" /\ tasks # <<>> /\ tasks[1].pos \in Tiers
    /\ \E o \in SearchOutcomes(tasks[1].pos) :
           /\ tasks' = <<TmdbAfterSearch(tasks[1], o)>>
           /\ trail' = Append(trail, [tier |-> tasks[1].pos, out |-> o])
    /\ UNCHANGED redis
    /\ SearchFrame

\* the details call for the match has settled
SearchDetailsDone ==
    /\ pc = "search" /\ tasks # <<>> /\ tasks[1].pos = "details"
    /\ \E o \in DetailsOutcomes(tasks[1].val.mediaType) :
           tasks' = <<TmdbAfterDetails(tasks[1], o)>>
    /\ UNCHANGED <<redis, trail>>
    /\ SearchFrame

\* the cache set of the record's payload has settled
SearchSetDone ==
    /\ pc = "search" /\ tasks # <<>> /\ tasks[1].pos = "cacheSet"
    /\ \E o \in SetOutcomes :
           redis' = AfterStoreSet(buildFilmTmdbCacheKey(tasks[1].movie), tasks[1].val, o)
    /\ tasks' = <<AfterSet(tasks[1])>>
    /\ UNCHANGED trail
    /\ SearchFrame

NextSearch == SearchStart \/ SearchCallDone \/ SearchDetailsDone \/ SearchSetDone

SpecSearch == InitSearch /\ [][NextSearch]_vars

\* the tiers invoked so far, in the order of their invocation
Invoked ==
    [n \in Indices(trail) |-> trail[n].tier]
        \o (IF tasks # <<>> /\ tasks[1].pos \in Tiers THEN <<tasks[1].pos>> ELSE <<>>)

TierPlan(movie) ==
    IF movie.Year # "" THEN <<"tier1", "tier2", "tier3">> ELSE <<"tier2", "tier3">>

IsPrefix(a, b) == Len(a) <= Len(b) /\ a = SubSeq(b, 1, Len(a))

ReturnedEmpty(call) == call.out.ok /\ call.out.results = <<>>

\* C16: the tiers of searchTMDB run in the order year-scoped movie search,
\* movie search without year, cross-kind search; the year-scoped tier is
\* invoked only (and first) for a record with a non-empty year; a tier is
\* invoked only if every tier invoked before it returned an empty result;
\* a hit of a movie tier is returned as the match, with kind movie, and
\* no later tier is invoked; when all tiers return empty there is no match.
C16_TiersInOrderFirstHitWins ==
    pc = "search" /\ tasks # <<>> =>
        LET t == tasks[1]
            movie == entries[1]
        IN  /\ Invoked # <<>>
            /\ IsPrefix(Invoked, TierPlan(movie))
            /\ \A n \in 1 .. (Len(Invoked) - 1) : ReturnedEmpty(trail[n])
            /\ \A n \in Indices(trail) :
                   (trail[n].tier \in {"tier1", "tier2"}
                        /\ trail[n].out.ok /\ trail[n].out.results # <<>>)
                   => /\ Len(Invoked) = n
                      /\ t.pos \in {"details", "cacheSet", "done"}
                      /\ t.pos = "details" =>
                             t.val = [match |-> trail[n].out.results[1],
                                      mediaType |-> "movie"]
            /\ (Len(trail) = Len(TierPlan(movie))
                    /\ \A n \in Indices(trail) : ReturnedEmpty(trail[n]))
               => /\ t.how.by = "exhausted"
                  /\ t.pos \in {"cacheSet", "done"}
                  /\ t.pos = "cacheSet" => t.val = [notFound |-> TRUE]
                  /\ t.pos = "done" => t.movie.notFound

\* a hit of the year-scoped tier has just been returned
C16_Witness ==
    /\ pc = "search" /\ tasks # <<>> /\ entries[1].Year # ""
    /\ trail = <<[tier |-> "tier1", out |-> [ok |-> TRUE, results |-> <<MovieHit>>]]>>
    /\ tasks[1].pos = "details"

\* all three tiers have returned empty
C16_WitnessExhausted ==
    /\ pc = "search" /\ tasks # <<>> /\ Len(trail) = 3
    /\ \A n \in Indices(trail) : ReturnedEmpty(trail[n])
    /\ tasks[1].pos = "done"

---------------------------------------------------------------------------
(* The order of the stages of one run *)

\* point a has been passed, and before any passing of point b
Before(a, b) ==
    \E n \in Indices(trail) : trail[n] = a /\ \A m \in 1 .. n : trail[m] # b

ProviderOps == {"get:tmdb", "provider", "set:tmdb"}

NativeOps == {"get:lb", "native", "set:lb"}

Paginating == pc \in {"filmsPage", "diaryPage"}

\* a record that the native-detail stage has been through
HasNativeDetails(movie) == "lbCast" \in DOMAIN movie

\* a record that the provider stage has been through
ProviderWays == {"cached", "matched", "exhausted", "failed"}

\* C17: both paginations have ended before reconciliation starts; the
\* native-detail enrichment of every record has completed before the first
\* provider-enrichment call (cache get, search or details) is made; the
\* provider enrichment of every record has completed before the whole-user
\* cache entry is written; the write precedes the response.
C17_StagesInOrder ==
    /\ Paginating =>
           /\ ~InTrail("merged") /\ byUri = <<>>
           /\ did \cap (NativeOps \cup ProviderOps \cup {"set:user"}) = {}
    /\ InTrail("merged") =>
           /\ ~Paginating
           /\ Before("filmsScraped", "merged") \/ Before("filmsThrew", "merged")
           /\ Before("diaryScraped", "merged")
    /\ InLbStage => did \cap (ProviderOps \cup {"set:user"}) = {}
    /\ did \cap ProviderOps # {} =>
           /\ Before("merged", "nativeDone")
           /\ ~InLbStage
           /\ Len(entries) = Len(byUri)
           /\ \A n \in Indices(entries) : HasNativeDetails(entries[n])
    /\ (pc \in {"tmdbChunk", "tmdbDelay"}) => "set:user" \notin did /\ responses = <<>>
    /\ "set:user" \in did =>
           /\ Before("nativeDone", "tmdbDone")
           /\ tasks = <<>>
           /\ Len(result) = Len(byUri) /\ Len(how) = Len(result)
           /\ \A n \in Indices(how) : how[n].by \in ProviderWays
    /\ pc = "userCacheSet" => responses = <<>>
    /\ (Answered(200) /\ InTrail("tmdbDone") /\ redisOn) =>
           /\ "set:user" \in did
           /\ Before("tmdbDone", "userCacheSet") \/ Before("tmdbDone", "userCacheSetThrew")

\* a run over two records that went through every stage and was answered
C17_Witness ==
    /\ Answered(200) /\ "set:user" \in did /\ Len(result) = 2
    /\ {"page", "native", "provider"} \subseteq did
    /\ Before("merged", "nativeDone") /\ Before("nativeDone", "tmdbDone")
    /\ Before("tmdbDone", "userCacheSet")

---------------------------------------------------------------------------
(* The version token of the keys.  The three key builders interpolate the  *)
(* one CACHE_VERSION of the source; a deployment that changes the token    *)
(* changes what every builder returns.  Here the store lives through such  *)
(* deployments: version is the token of the source now deployed.           *)

\* the values CACHE_VERSION has over the deployments
Tokens == {CACHE_VERSION, "v3"}

\* the mutant of KeyUnder: only the whole-user builder takes the new token
KeyUnderUserOnly(token, key) ==
    IF key[3] = "user" THEN [key EXCEPT ![2] = token] ELSE key

\* what the builder of `key` returns when CACHE_VERSION is `token`
KeyUnder(token, key) == [key EXCEPT ![2] = token]

InitKeys ==
    /\ req = NoRequest
    /\ apiKey = TRUE
    /\ redisOn = TRUE
    /\ redis = EmptyStore
    /\ pc = "keys"
    /\ page = 1
    /\ allEntries = <<>>
    /\ filmEntries = <<>>
    /\ diaryEntries = <<>>
    /\ byUri = <<>>
    /\ i = 0
    /\ entries = <<>>
    /\ result = <<>>
    /\ tasks = <<>>
    /\ how = <<>>
    /\ responses = <<>>
    /\ did = {}
    /\ trail = <<>>
    /\ steps = 0
    /\ now = 0
    /\ expiry = EmptyStore
    /\ version = CACHE_VERSION
    /\ fetched = NoneFetched

KeysFrame ==
    UNCHANGED <<req, apiKey, redisOn, pc, page, allEntries, filmEntries, diaryEntries,
                byUri, i, entries, result, tasks, responses, steps, now, expiry,
                fetched>>

\* await redisClient.set(key, value, ...) of a scope has settled.
\* History: did keeps, per scope and token, the value of the last set that
\* succeeded; trail, the last get, starts anew.
KeysSetDone ==
    /\ pc = "keys"
    /\ \E scope \in Scopes : \E v \in ValuesOf(scope), o \in SetOutcomes :
           /\ redis' = AfterStoreSet(KeyUnder(version, KeyOf(scope)), v, o)
           /\ did' = IF o = "ok"
                     THEN {e \in did : ~(e.scope = scope /\ e.version = version)}
                              \cup {[scope |-> scope, version |-> version, value |-> v]}
                     ELSE did
    /\ trail' = <<>>
    /\ UNCHANGED <<how, version>>
    /\ KeysFrame

\* await redisClient.get(key) of a scope has settled
KeysGetDone ==
    /\ pc = "keys"
    /\ \E scope \in Scopes :
           \E o \in GetOutcomes(redis, KeyUnder(version, KeyOf(scope))) :
               trail' = <<[scope |-> scope, out |-> o]>>
    /\ UNCHANGED <<redis, did, how, version>>
    /\ KeysFrame

\* the source is deployed with another CACHE_VERSION, the value one scope
\* caches having changed its shape.  History: how keeps that scope and the
\* token before the change.
TokenChange ==
    /\ pc = "keys"
    /\ \E token \in Tokens \ {version}, scope \in Scopes :
           /\ version' = token
           /\ how' = <<[for |-> scope, from |-> version]>>
    /\ trail' = <<>>
    /\ UNCHANGED <<redis, did>>
    /\ KeysFrame

NextKeys == KeysSetDone \/ KeysGetDone \/ TokenChange

SpecKeys == InitKeys /\ [][NextKeys]_vars

\* C18: the three cache scopes are independently versioned: after the
\* version token was changed for one scope, an entry cached before the
\* change in another scope is still found under its key.
C18_OtherScopesKeepTheirKeys ==
    pc = "keys" =>
        \A n \in Indices(trail), c \in Indices(how) :
            LET g == trail[n]
            IN  (/\ g.scope # how[c].for
                 /\ g.out.kind # "throw"
                 /\ \E e \in did : e.scope = g.scope /\ e.version = how[c].from)
                => g.out.kind = "hit"

\* C18, amended: the three scopes have disjoint keys but share one version
\* token: changing the token changes the keys of all three scopes, so in
\* every scope a get finds exactly what was cached under the token now
\* deployed.
C18_OneTokenForAllScopes ==
    pc = "keys" =>
        /\ \A a, b \in Scopes, t, u \in Tokens :
               (a # b \/ t # u) => KeyUnder(t, KeyOf(a)) # KeyUnder(u, KeyOf(b))
        /\ \A n \in Indices(trail) :
               LET g == trail[n]
                   under == {e \in did : e.scope = g.scope /\ e.version = version}
               IN  g.out.kind # "throw" =>
                       /\ under = {} => g.out.kind = "miss"
                       /\ \A e \in under : g.out = [kind |-> "hit", value |-> e.value]

\* after a token change made for the whole-user scope, the provider-match
\* entry cached before the change is not found
C18_Witness ==
    /\ pc = "keys" /\ how = <<[for |-> "user", from |-> CACHE_VERSION]>>
    /\ \E e \in did : e.scope = "tmdb" /\ e.version = CACHE_VERSION
    /\ trail = <<[scope |-> "tmdb", out |-> [kind |-> "miss"]]>>

---------------------------------------------------------------------------
(* normalizeTitleForSearch on the titles of records.  entries holds the    *)
(* record; result holds what the function gave for its Name and then what  *)
(* it gave for that.                                                       *)

\* a letter, a hyphen, plain and other white space, a dash, curly quotes
TitleChars == {"a", "-", " ", "tab", "u2013", "u2018", "u201C"}

Titles == SeqsUpTo(TitleChars, MaxTitleLen)

InitTitle ==
    /\ req = NoRequest
    /\ apiKey = TRUE
    /\ redisOn = FALSE
    /\ redis = EmptyStore
    /\ pc = "title"
    /\ page = 1
    /\ allEntries = <<>>
    /\ filmEntries = <<>>
    /\ diaryEntries = <<>>
    /\ byUri = <<>>
    /\ i = 0
    /\ \E name \in Titles : entries = <<Entry(name, "2001", "", "", "/film/a/")>>
    /\ result = <<>>
    /\ tasks = <<>>
    /\ how = <<>>
    /\ responses = <<>>
    /\ did = {}
    /\ trail = <<>>
    /\ steps = 0
    /\ now = 0
    /\ expiry = EmptyStore
    /\ version = CACHE_VERSION
    /\ fetched = NoneFetched

TitleFrame ==
    UNCHANGED <<req, apiKey, redisOn, redis, pc, page, allEntries, filmEntries,
                diaryEntries, byUri, i, entries, tasks, how, responses, did, trail,
                steps, now, expiry, version, fetched>>

\* const normalizedName = normalizeTitleForSearch(movie.Name)
NormalizeName ==
    /\ pc = "title" /\ result = <<>>
    /\ result' = <<normalizeTitleForSearch(entries[1].Name)>>
    /\ TitleFrame

\* the function applied to what it returned
NormalizeAgain ==
    /\ pc = "title" /\ Len(result) = 1
    /\ result' = Append(result, normalizeTitleForSearch(result[1]))
    /\ TitleFrame

NextTitle == NormalizeName \/ NormalizeAgain

SpecTitle == InitTitle /\ [][NextTitle]_vars

\* C19: normalizeTitleForSearch is idempotent: normalizing what it returned
\* gives it back unchanged; what it returns has no dash variant, no curly
\* quote, no white space but single plain spaces, none at either end.
C19_NormalizeIdempotent ==
    (pc = "title" /\ Len(result) = 2) =>
        /\ result[2] = result[1]
        /\ \A n \in Indices(result[1]) :
               /\ result[1][n] \notin Dashes \cup SingleQuotes \cup DoubleQuotes
               /\ result[1][n] \in WhiteSpace =>
                      /\ result[1][n] = " "
                      /\ 1 < n /\ n < Len(result[1])
                      /\ result[1][n + 1] \notin WhiteSpace

\* a title that normalization changes in each of its ways
C19_Witness ==
    /\ pc = "title" /\ Len(result) = 2
    /\ entries[1].Name = <<"u2013", "tab", " ">>
    /\ result[1] = <<"-">>

C19_WitnessQuotes ==
    /\ pc = "title" /\ Len(result) = 2
    /\ entries[1].Name = <<"u201C", "a", "u2018">>
    /\ result[1] = <<"dq", "a", "'">>

---------------------------------------------------------------------------
(* Page requests that fail.  fetchHtml throws on a response that is not ok *)
(* (a 403 among them); fetched counts the requests made for the page a     *)
(* listing requested last.                                                 *)

\* the listing has given up: its paginator threw
GaveUp(listing) == InTrail(IF listing = "films" THEN "filmsThrew" ELSE "diaryThrew")

\* C20: when a Letterboxd page request is blocked (answered 403), the
\* request is made again before that page is given up on: the page a
\* listing gave up on, the last one requested for it, was requested at
\* least twice.
C20_BlockedPageIsRetried ==
    \A listing \in Listings :
        GaveUp(listing) => fetched[listing] >= 2

---------------------------------------------------------------------------
(* The paginators.  While page n of a listing is awaited, allEntries holds *)
(* the entries of its pages 1 .. n - 1.                                    *)

\* C21: in either listing, when page 1 yields no entries the pagination
\* stops at once: page 2 is requested only after a page 1 with entries.
C21_EmptyFirstPageStops ==
    (Paginating /\ page = 2) => allEntries # <<>>

\* the log half: scrapeFullDiary breaks on an empty page 1
C21_DiaryEmptyFirstPageStops ==
    /\ (pc = "diaryPage" /\ page = 2) => allEntries # <<>>
    /\ (InTrail("diaryScraped") /\ diaryEntries = <<>>) => fetched["diary"] = 1

C21_DiaryWitness ==
    /\ InTrail("diaryScraped") /\ diaryEntries = <<>> /\ filmEntries # <<>>

---------------------------------------------------------------------------
(* The paginators against long listings: every page of either listing can  *)
(* have a next one, beyond the cap of either paginator.  Page n of a       *)
(* listing holds the listing's n-th film up to page MaxListed, the pages   *)
(* after it parse to nothing; page 1 may also parse to nothing.            *)

\* the film on page n of a listing
LongEntry(kind, n) ==
    [Entry(<<"film", n>>, "2001", "", "", "/film/a/") EXCEPT
        !.Date = IF kind = "diary" THEN "2023-01-09" ELSE ""]

\* how the fetch and parse of page n of a long listing can settle
LongPageOutcomes(kind, n) ==
    {[ok |-> FALSE, entries |-> <<>>, hasNext |-> FALSE]}
        \cup {[ok |-> TRUE, entries |-> es, hasNext |-> more] :
                 es \in IF n = 1 THEN {<<>>, <<LongEntry(kind, n)>>}
                        ELSE IF n <= MaxListed THEN {<<LongEntry(kind, n)>>}
                        ELSE {<<>>},
                 more \in BOOLEAN}

InitPages ==
    /\ req = [method |-> "GET", username |-> [type |-> "string", value |-> "Bob"],
              forceRefresh |-> "True"]
    /\ apiKey = TRUE
    /\ redisOn = FALSE
    /\ redis = EmptyStore
    /\ pc = "start"
    /\ page = 1
    /\ allEntries = <<>>
    /\ filmEntries = <<>>
    /\ diaryEntries = <<>>
    /\ byUri = <<>>
    /\ i = 0
    /\ entries = <<>>
    /\ result = <<>>
    /\ tasks = <<>>
    /\ how = <<>>
    /\ responses = <<>>
    /\ did = {}
    /\ trail = <<>>
    /\ steps = 0
    /\ now = 0
    /\ expiry = EmptyStore
    /\ version = CACHE_VERSION
    /\ fetched = NoneFetched

\* scrapeFilmsPage(username, page) of a long grid has settled
LongFilmsPageDone ==
    /\ pc = "filmsPage"
    /\ \E o \in LongPageOutcomes("films", page) : Become(AfterFilmsPage(Here, o))

\* scrapeDiaryPage(username, page) of a long diary has settled
LongDiaryPageDone ==
    /\ pc = "diaryPage"
    /\ \E o \in LongPageOutcomes("diary", page) : Become(AfterDiaryPage(Here, o))

NextPages == Start \/ LongFilmsPageDone \/ LongDiaryPageDone

SpecPages == InitPages /\ [][NextPages]_vars

\* the entries of pages 1 .. k of a long listing, in page order; first
\* tells whether page 1 parsed to its film
RECURSIVE PagesUpTo(_, _, _)
PagesUpTo(kind, k, first) ==
    IF k = 0 THEN <<>>
    ELSE PagesUpTo(kind, k - 1, first)
             \o (IF (k = 1 /\ ~first) \/ k > MaxListed THEN <<>>
                 ELSE <<LongEntry(kind, k)>>)

---------------------------------------------------------------------------
(* The cross-kind tier of the provider match, over result lists of movies, *)
(* series and persons with and without a popularity.  trail keeps the      *)
(* results of the search, did the endpoint the details call is sent to.    *)

MaxMulti == 3

\* results of /search/multi: a movie without popularity, a popular movie, a
\* series, a series as popular as the movie, a person more popular than all
MultiHits ==
    {Spread(MovieHit, [media_type |-> "movie"]),
     Spread(MovieHit, [id |-> 12, media_type |-> "movie", popularity |-> 7]),
     TvHit,
     Spread(TvHit, [id |-> 23, popularity |-> 7]),
     PersonHit}

MultiLists == SeqsUpTo(MultiHits, MaxMulti)

\* const typePath = mediaType === 'tv' ? 'tv' : 'movie'
typePath(mediaType) == IF mediaType = "tv" THEN "tv" ELSE "movie"

InitMulti ==
    /\ req = NoRequest
    /\ apiKey = TRUE
    /\ redisOn = FALSE
    /\ redis = EmptyStore
    /\ pc = "multi"
    /\ page = 1
    /\ allEntries = <<>>
    /\ filmEntries = <<>>
    /\ diaryEntries = <<>>
    /\ byUri = <<>>
    /\ i = 0
    /\ \E movie \in SearchMovies :
           /\ entries = <<movie>>
           /\ tasks = <<Task("tier3", movie, NoVal, By(""))>>
    /\ result = <<>>
    /\ how = <<>>
    /\ responses = <<>>
    /\ did = {}
    /\ trail = <<>>
    /\ steps = 0
    /\ now = 0
    /\ expiry = EmptyStore
    /\ version = CACHE_VERSION
    /\ fetched = NoneFetched

MultiFrame ==
    UNCHANGED <<req, apiKey, redisOn, redis, pc, page, allEntries, filmEntries,
                diaryEntries, byUri, i, entries, result, how, responses, steps, now,
                expiry, version, fetched>>

\* runSearch('/search/multi') has settled with a list of results; on a
\* match the details call is sent
MultiSearchDone ==
    /\ pc = "multi" /\ tasks[1].pos = "tier3"
    /\ \E results \in MultiLists :
           LET t == TmdbAfterSearch(tasks[1], [ok |-> TRUE, results |-> results])
           IN  /\ tasks' = <<t>>
               /\ trail' = <<results>>
               /\ did' = IF t.pos = "details" THEN {typePath(t.val.mediaType)} ELSE {}
    /\ MultiFrame

\* the details call has settled
MultiDetailsDone ==
    /\ pc = "multi" /\ tasks[1].pos = "details"
    /\ \E o \in DetailsOutcomes(typePath(tasks[1].val.mediaType)) :
           tasks' = <<TmdbAfterDetails(tasks[1], o)>>
    /\ UNCHANGED <<trail, did>>
    /\ MultiFrame

NextMulti == MultiSearchDone \/ MultiDetailsDone

SpecMulti == InitMulti /\ [][NextMulti]_vars

Understood == {"movie", "tv"}

\* the results of the two types the pipeline understands
Candidates(results) ==
    {results[n] : n \in {m \in Indices(results) :
                            Has(results[m], "media_type")
                                /\ results[m].media_type \in Understood}}

Score(r) == IF "popularity" \in DOMAIN r THEN r.popularity ELSE 0

\* C23: the candidate tier 3 returns is a result of type movie or tv, no
\* movie or tv result is more popular (no popularity counting as 0), its
\* category is its media type, and the details call goes to the endpoint of
\* that type; without a movie or tv result nothing is returned.
C23_MostPopularOfUnderstoodKinds ==
    (pc = "multi" /\ trail # <<>>) =>
        LET t == tasks[1]
            results == trail[1]
        IN  /\ Candidates(results) = {} =>
                   /\ t.pos = "done" /\ t.how.by = "exhausted" /\ did = {}
            /\ Candidates(results) # {} =>
                   /\ t.pos = "details" =>
                          /\ t.val.match \in Candidates(results)
                          /\ \A r \in Candidates(results) :
                                 Score(r) <= Score(t.val.match)
                          /\ t.val.mediaType = t.val.match.media_type
                          /\ did = {t.val.match.media_type}
                   /\ t.pos = "done" => t.how.by \in {"matched", "failed"}
                   /\ (t.pos = "done" /\ t.how.by = "matched") =>
                          \E r \in Candidates(results) :
                              /\ t.movie.tmdb_id = r.id
                              /\ did = {r.media_type}
                              /\ \A q \in Candidates(results) : Score(q) <= Score(r)

\* a person leads the list, the series is second and the popular movie,
\* third, is the match
C23_Witness ==
    /\ pc = "multi" /\ tasks[1].pos = "details"
    /\ trail = << <<PersonHit, TvHit,
                    Spread(MovieHit, [id |-> 12, media_type |-> "movie", popularity |-> 7])>> >>
    /\ tasks[1].val.match.id = 12 /\ did = {"movie"}

\* the series is the match and the details call goes to the tv endpoint
C23_WitnessTv ==
    /\ pc = "multi" /\ tasks[1].pos = "details"
    /\ trail = << <<Spread(MovieHit, [media_type |-> "movie"]), TvHit>> >>
    /\ tasks[1].val.match = TvHit /\ did = {"tv"}

---------------------------------------------------------------------------
(* The two chunk loops over lists longer than a chunk.  The grid has been  *)
(* scraped and holds up to MaxRecords films, each under its own URI; the   *)
(* diary is empty; there is no store.                                      *)

MaxRecords == 4

FilmUris == <<"/film/a/", "/film/b/", "/film/c/", "/film/d/", "/film/e/", "/film/f/">>

\* the first k films of the grid
GridOf(k) == [n \in 1 .. k |-> Entry(<<"film", n>>, "", "", "", FilmUris[n])]

InitChunks ==
    /\ req = [method |-> "GET", username |-> [type |-> "string", value |-> "Bob"],
              forceRefresh |-> ""]
    /\ apiKey = TRUE
    /\ redisOn = FALSE
    /\ redis = EmptyStore
    /\ pc = "diaryPage"
    /\ page = 1
    /\ allEntries = <<>>
    /\ \E k \in 1 .. MaxRecords : filmEntries = GridOf(k)
    /\ diaryEntries = <<>>
    /\ byUri = <<>>
    /\ i = 0
    /\ entries = <<>>
    /\ result = <<>>
    /\ tasks = <<>>
    /\ how = <<>>
    /\ responses = <<>>
    /\ did = {"page"}
    /\ trail = <<"filmsScraped">>
    /\ steps = 0
    /\ now = 0
    /\ expiry = EmptyStore
    /\ version = CACHE_VERSION
    /\ fetched = [listing \in Listings |-> 1]

\* Promise.all of the fetchHtml calls of a film's pages: it rejects when a
\* page is unreachable
PromiseAll(unreachable) == IF unreachable = {} THEN "ok" ELSE "fail"

\* scrapeLetterboxdFilmMeta has settled for task n, any of the four pages
\* of the film being unreachable or none
PagesScrapeDone(n) ==
    /\ Waits("lb", n, {"scrape"})
    /\ \E unreachable \in SUBSET ScrapeUrls :
           Become(WithTask(Here, "lb", n, LbAfterScrape(tasks[n], PromiseAll(unreachable))))

\* page 1 of the diary has parsed to nothing: the merge, then the first
\* chunk of the native-detail stage
EmptyDiaryPageDone ==
    /\ pc = "diaryPage"
    /\ Become(AfterDiaryPage(Here, [ok |-> TRUE, entries |-> <<>>, hasNext |-> FALSE]))

NextChunks ==
    \/ EmptyDiaryPageDone
    \/ \E n \in 1..CHUNK_SIZE : PagesScrapeDone(n)
    \/ LbChunkDone
    \/ LbDelayDone
    \/ \E n \in 1..CHUNK_SIZE : TmdbSearchDone(n)
    \/ \E n \in 1..CHUNK_SIZE : TmdbDetailsDone(n)
    \/ TmdbChunkDone
    \/ TmdbDelayDone

SpecChunks == InitChunks /\ [][NextChunks]_vars

InChunk == pc \in {"lbChunk", "tmdbChunk"}

InDelay == pc \in {"lbDelay", "tmdbDelay"}

\* the records of list at positions from .. to are those of entries, in order
SameRecords(list, from, to) ==
    \A n \in from .. to : list[n - from + 1].LetterboxdURI = entries[n].LetterboxdURI

\* the tasks are those of the chunk at i, the chunks before it are done
ChunkBarrier ==
    /\ InChunk =>
           /\ i % CHUNK_SIZE = 0 /\ i < Len(entries)
           /\ Len(tasks) = Min2(CHUNK_SIZE, Len(entries) - i)
           /\ Len(tasks) <= CHUNK_SIZE
           /\ SameRecords([n \in Indices(tasks) |-> tasks[n].movie], i + 1, i + Len(tasks))
           /\ Len(result) = i
           /\ SameRecords(result, 1, i)
    /\ InDelay =>
           /\ tasks = <<>>
           /\ Len(result) = Min2(i + CHUNK_SIZE, Len(entries))
           /\ SameRecords(result, 1, Len(result))
    /\ ~InChunk => tasks = <<>>
    /\ InTrail("tmdbDone") =>
           /\ Len(result) = Len(entries)
           /\ SameRecords(result, 1, Len(entries))

\* tasks start in a step taken with no task left, at the first chunk of
\* the run or when a delay has elapsed
TasksStartAfterDelay ==
    (tasks' # <<>> /\ \E n \in Indices(tasks') : n \notin Indices(tasks) \/ tasks'[n].movie.LetterboxdURI # tasks[n].movie.LetterboxdURI)
        => /\ tasks = <<>>
           /\ InDelay \/ pc = "diaryPage"

\* C24: in both enricher stages the records are handled in consecutive
\* chunks of CHUNK_SIZE (the last may be shorter), each record by one task
\* of one chunk, at most CHUNK_SIZE tasks exist at once, and the tasks of a
\* chunk start only when every task of the chunk before has completed and
\* the delay after it has elapsed.
C24_ChunkBarrier == []ChunkBarrier /\ [][TasksStartAfterDelay]_vars

\* the second chunk of the provider stage, one record long, is running
\* after a first chunk in which one record failed and one was not found
C24_Witness ==
    /\ pc = "tmdbChunk" /\ i = CHUNK_SIZE /\ Len(tasks) = 1 /\ Len(entries) = 4
    /\ tasks[1].movie.LetterboxdURI = "/film/d/"
    /\ Len(result) = 3
    /\ \E n \in 1 .. 3 : Has(result[n], "error")
    /\ \E n \in 1 .. 3 : Has(result[n], "notFound")

---------------------------------------------------------------------------
(* The per-record cache lookup.  One chunk of up to MaxLookup records goes *)
(* through both stages against a store that holds values of earlier runs   *)
(* for some of them.  Each task carries, in ops, the operations it has     *)
(* issued, whether its cache get was a hit and how its set has settled.    *)

MaxLookup == 2

LookupFilms ==
    <<Entry(TitleA, "2001", "", "4", "/film/a/"),
      Entry(TitleB, "", "2022-05-01", "3", "/film/b/"),
      Entry(TitleA, "", "", "", "/film/c/")>>

\* what a run that scraped and matched film a has left in the store
MatchedStore ==
    Put(Put(EmptyStore,
        buildFilmLetterboxdCacheKey("/film/a/"), ScrapedMeta),
        buildFilmTmdbCacheKey(LookupFilms[1]), TmdbPayload(MovieHit, MovieDetails))

InitLookup ==
    /\ req = [method |-> "GET", username |-> [type |-> "string", value |-> "Bob"],
              forceRefresh |-> ""]
    /\ apiKey = TRUE
    /\ redisOn = TRUE
    /\ redis = MatchedStore
    /\ pc = "diaryPage"
    /\ page = 1
    /\ allEntries = <<>>
    /\ \E k \in 1 .. MaxLookup : filmEntries = SubSeq(LookupFilms, 1, k)
    /\ diaryEntries = <<>>
    /\ byUri = <<>>
    /\ i = 0
    /\ entries = <<>>
    /\ result = <<>>
    /\ tasks = <<>>
    /\ how = <<>>
    /\ responses = <<>>
    /\ did = {"page", "get:user"}
    /\ trail = <<"userCacheGet", "filmsScraped">>
    /\ steps = 0
    /\ now = 0
    /\ expiry = EmptyStore
    /\ version = CACHE_VERSION
    /\ fetched = [listing \in Listings |-> 1]

\* the operations a task has issued, oldest first
OpsOf(stage, t) ==
    IF Has(t, "ops") THEN t.ops
    ELSE IF t.pos = "done" THEN <<>>
    ELSE <<Kind(stage, t.pos)>>

\* task old has moved to new on the given outcome of the operation it
\* waited for: the log gets a hit of the cache get, the outcome of the cache
\* set and the operation the task waits for now, consecutive calls of one
\* kind once
Logged(stage, old, outcome, new) ==
    LET before == OpsOf(stage, old)
        settled == IF old.pos = "cacheSet" \/ outcome = "hit" THEN before \o <<outcome>> ELSE before
    IN  Spread(new, [ops |-> IF new.pos = "done" \/ Kind(stage, new.pos) = before[Len(before)]
                             THEN settled
                             ELSE Append(settled, Kind(stage, new.pos))])

LookupLbGetDone(n) ==
    /\ Waits("lb", n, {"cacheGet"})
    /\ \E o \in GetOutcomes(redis, buildFilmLetterboxdCacheKey(tasks[n].movie.LetterboxdURI)) :
           Become(WithTask(Here, "lb", n, Logged("lb", tasks[n], o.kind, LbAfterGet(tasks[n], o))))

LookupLbScrapeDone(n) ==
    /\ Waits("lb", n, {"scrape"})
    /\ \E o \in ScrapeOutcomes :
           Become(WithTask(Here, "lb", n, Logged("lb", tasks[n], "", LbAfterScrape(tasks[n], o))))

LookupLbSetDone(n) ==
    /\ Waits("lb", n, {"cacheSet"})
    /\ \E o \in SetOutcomes :
           Become(WithTask(
               [Here EXCEPT !.redis = AfterStoreSet(
                    buildFilmLetterboxdCacheKey(tasks[n].movie.LetterboxdURI),
                    tasks[n].val, o)],
               "lb", n, Logged("lb", tasks[n], o, AfterSet(tasks[n]))))

LookupTmdbGetDone(n) ==
    /\ Waits("tmdb", n, {"cacheGet"})
    /\ \E o \in GetOutcomes(redis, buildFilmTmdbCacheKey(tasks[n].movie)) :
           Become(WithTask(Here, "tmdb", n,
                           Logged("tmdb", tasks[n], o.kind, TmdbAfterGet(tasks[n], o))))

LookupTmdbSearchDone(n) ==
    /\ Waits("tmdb", n, {"tier1", "tier2", "tier3"})
    /\ \E o \in SearchOutcomes(tasks[n].pos) :
           Become(WithTask(Here, "tmdb", n,
                           Logged("tmdb", tasks[n], "", TmdbAfterSearch(tasks[n], o))))

LookupTmdbDetailsDone(n) ==
    /\ Waits("tmdb", n, {"details"})
    /\ \E o \in DetailsOutcomes(tasks[n].val.mediaType) :
           Become(WithTask(Here, "tmdb", n,
                           Logged("tmdb", tasks[n], "", TmdbAfterDetails(tasks[n], o))))

LookupTmdbSetDone(n) ==
    /\ Waits("tmdb", n, {"cacheSet"})
    /\ \E o \in SetOutcomes :
           Become(WithTask(
               [Here EXCEPT !.redis = AfterStoreSet(
                    buildFilmTmdbCacheKey(tasks[n].movie), tasks[n].val, o)],
               "tmdb", n, Logged("tmdb", tasks[n], o, AfterSet(tasks[n]))))

NextLookup ==
    \/ EmptyDiaryPageDone
    \/ \E n \in 1..CHUNK_SIZE : LookupLbGetDone(n)
    \/ \E n \in 1..CHUNK_SIZE : LookupLbScrapeDone(n)
    \/ \E n \in 1..CHUNK_SIZE : LookupLbSetDone(n)
    \/ LbChunkDone
    \/ LbDelayDone
    \/ \E n \in 1..CHUNK_SIZE : LookupTmdbGetDone(n)
    \/ \E n \in 1..CHUNK_SIZE : LookupTmdbSearchDone(n)
    \/ \E n \in 1..CHUNK_SIZE : LookupTmdbDetailsDone(n)
    \/ \E n \in 1..CHUNK_SIZE : LookupTmdbSetDone(n)
    \/ TmdbChunkDone
    \/ TmdbDelayDone
    \/ UserCacheSetDone

SpecLookup == InitLookup /\ [][NextLookup]_vars

Hit(ops) == \E n \in Indices(ops) : ops[n] = "hit"

StageNow == IF pc = "lbChunk" THEN "lb" ELSE "tmdb"

\* the cache key of the record a stage handles
StageKey(stage, record) ==
    IF stage = "lb" THEN buildFilmLetterboxdCacheKey(record.LetterboxdURI)
    ELSE buildFilmTmdbCacheKey(record)

NetworkKinds == {"native", "provider"}

\* C25: without forceRefresh the first operation of a record's task is the
\* cache get; after a hit the task issues nothing more, neither a network
\* call nor a cache set, and returns the record with the cached fields;
\* after a miss the task ends with one cache set, of the value its network
\* calls gave, under the key the get was made with; hit or miss, task n of
\* the chunk is that of the n-th record of the chunk.
C25_LookupBeforeNetwork ==
    (InChunk /\ ~forceRefresh) =>
        /\ Len(tasks) = Min2(CHUNK_SIZE, Len(entries) - i)
        /\ \A n \in Indices(tasks) :
               LET t == tasks[n]
                   ops == OpsOf(StageNow, t)
                   record == entries[i + n]
                   key == StageKey(StageNow, record)
               IN  /\ t.movie.LetterboxdURI = record.LetterboxdURI
                   /\ ops # <<>>
                   /\ ops[1] = Kind(StageNow, "cacheGet")
                   /\ \A m \in Indices(ops) : ops[m] \in NetworkKinds => m > 1
                   /\ Hit(ops) =>
                          /\ ops = <<Kind(StageNow, "cacheGet"), "hit">>
                          /\ t.pos = "done"
                          /\ key \in DOMAIN redis /\ redis[key] = t.how.value
                          /\ t.movie = Spread(record, t.how.value)
                   /\ (t.pos = "done" /\ ~Hit(ops)) =>
                          /\ \E m \in Indices(ops) : ops[m] \in NetworkKinds
                          /\ Len(ops) >= 2
                          /\ ops[Len(ops) - 1] = Kind(StageNow, "cacheSet")
                          /\ Cardinality({m \in Indices(ops) :
                                             ops[m] = Kind(StageNow, "cacheSet")}) = 1
                          /\ t.movie = Spread(record, t.how.value)
                          /\ ops[Len(ops)] = "ok" =>
                                 key \in DOMAIN redis /\ redis[key] = t.how.value

\* in the provider stage the first record of the chunk is a hit and the
\* second a miss whose match has been written to the store
C25_Witness ==
    /\ pc = "tmdbChunk" /\ ~forceRefresh /\ Len(tasks) = 2
    /\ OpsOf("tmdb", tasks[1]) = <<"get:tmdb", "hit">>
    /\ tasks[2].pos = "done" /\ tasks[2].how.by = "matched"
    /\ OpsOf("tmdb", tasks[2]) = <<"get:tmdb", "provider", "set:tmdb", "ok">>
    /\ redis[buildFilmTmdbCacheKey(entries[2])] = tasks[2].how.value

\* the same in the native-detail stage
C25_WitnessNative ==
    /\ pc = "lbChunk" /\ ~forceRefresh /\ Len(tasks) = 2
    /\ OpsOf("lb", tasks[1]) = <<"get:lb", "hit">>
    /\ OpsOf("lb", tasks[2]) = <<"get:lb", "native", "set:lb", "ok">>
    /\ tasks[2].pos = "done"

---------------------------------------------------------------------------
(* Enrichment adds fields to the records of the merge and nothing else *)

MergeFields == {"Name", "Year", "Date", "Rating", "LetterboxdURI"}

Merged(record) == [f \in MergeFields |-> record[f]]

\* the records of list are, in the fields of the merge, the records of the
\* merged list from position from on
Reconciled(list, from) ==
    /\ from + Len(list) - 1 <= Len(byUri)
    /\ \A n \in Indices(list) : Merged(list[n]) = Merged(byUri[from + n - 1])

\* C26: each enricher stage returns as many records as it was given, in
\* the same order, and every record keeps the Name, Year, Date, Rating and
\* LetterboxdURI it had after the merge, through both stages and into the
\* response.
C26_EnrichmentIsAdditive ==
    InTrail("merged") =>
        /\ Len(entries) = Len(byUri) /\ Reconciled(entries, 1)
        /\ Reconciled(result, 1)
        /\ InChunk => Reconciled([n \in Indices(tasks) |-> tasks[n].movie], i + 1)
        /\ (InTrail("nativeDone") \/ InTrail("tmdbDone")) =>
               \A n \in Indices(result) :
                   DOMAIN byUri[n] \subseteq DOMAIN result[n]
        /\ InTrail("tmdbDone") => Len(result) = Len(byUri)
        /\ \A n \in Indices(responses) :
               responses[n].status = 200 =>
                   /\ Len(responses[n].body.movies) = Len(byUri)
                   /\ Reconciled(responses[n].body.movies, 1)

\* four records in two chunks have been answered with, of which one failed
\* at the provider, one was matched and all carry the native details
C26_Witness ==
    /\ Len(byUri) = 4 /\ Len(responses) = 1 /\ responses[1].status = 200
    /\ \E n \in 1 .. 4 : Has(responses[1].body.movies[n], "error")
    /\ Has(responses[1].body.movies[4], "tmdb_id")
    /\ \A n \in 1 .. 4 : Has(responses[1].body.movies[n], "lbCast")

---------------------------------------------------------------------------
(* A failure of the provider ends the work on the record *)

\* the task of the record has ended its provider calls with the marker
Ended(t, way, marker) ==
    /\ t.how.by = way
    /\ t.pos \in {"cacheSet", "done"}
    /\ t.pos = "cacheSet" => t.val = [m \in {marker} |-> TRUE]
    /\ t.pos = "done" =>
           /\ Has(t.movie, marker) /\ t.movie[marker]
           /\ DOMAIN t.movie \cap (ProviderMatchFields \cup {"error", "notFound"}) = {marker}

\* a search call that failed is the last call made for the record, no tier
\* is called twice, and the record has the error marker from then on
FailureIsLast ==
    (pc = "search" /\ tasks # <<>>) =>
        /\ \A n \in Indices(trail) :
               ~trail[n].out.ok => n = Len(trail) /\ Ended(tasks[1], "failed", "error")
        /\ \A n, m \in Indices(Invoked) : Invoked[n] = Invoked[m] => n = m
        /\ tasks[1].how.by = "failed" => Ended(tasks[1], "failed", "error")
        /\ tasks[1].how.by = "exhausted" => Ended(tasks[1], "exhausted", "notFound")

\* a step of a record's task: a failed details call marks the record, and
\* a marked record makes no call again
NoCallAfterMarker ==
    (pc = "search" /\ tasks # <<>>) =>
        /\ (tasks[1].pos = "details" /\ tasks'[1].pos # "details") =>
               \/ Ended(tasks'[1], "failed", "error")
               \/ tasks'[1].how.by = "matched" /\ tasks'[1].pos \in {"cacheSet", "done"}
        /\ tasks[1].how.by \in {"failed", "exhausted"} =>
               /\ tasks'[1].how.by = tasks[1].how.by
               /\ tasks'[1].pos \in {"cacheSet", "done"}
               /\ trail' = trail

\* C27: when a search call of any tier or the details call fails, the
\* record gets the error marker at once, no later tier and no details call
\* is made for it and no call is repeated; after notFound no call is made
\* for the record either.
C27_ProviderFailureIsTerminal == []FailureIsLast /\ [][NoCallAfterMarker]_vars

\* the year-scoped search returned nothing, the search without year
\* failed, and the record is returned with the error marker
C27_Witness ==
    /\ pc = "search" /\ tasks # <<>> /\ Len(trail) = 2
    /\ ReturnedEmpty(trail[1]) /\ ~trail[2].out.ok
    /\ tasks[1].pos = "done" /\ tasks[1].movie.error

\* the details call of a match failed
C27_WitnessDetails ==
    /\ pc = "search" /\ tasks # <<>> /\ trail # <<>>
    /\ trail[Len(trail)].out.ok /\ trail[Len(trail)].out.results # <<>>
    /\ tasks[1].pos = "done" /\ tasks[1].movie.error

---------------------------------------------------------------------------
(* A film whose pages cannot be fetched *)

Markers == {"error", "notFound"}

NativeFields == DOMAIN EmptyMeta

\* the record is the given one with native details and nothing else added
WithNativeDetails(record, from) ==
    \E meta \in {EmptyMeta, ScrapedMeta} : record = Spread(from, meta)

\* C28: a film with an unreachable page gets empty lists for cast, crew,
\* studios, countries, genres and themes and a null poster; its record is
\* returned by the native-detail stage without a marker, the other records
\* of the list are enriched all the same, in both stages, and the run ends
\* with a 200 response that has every record.
C28_UnreachableFilmIsNotAFailure ==
    /\ \A n \in Indices(responses) : responses[n].status = 200
    /\ pc = "lbChunk" =>
           \A n \in Indices(tasks) :
               /\ tasks[n].pos = "done" =>
                      /\ tasks[n].how.by \in {"scraped", "unreachable"}
                      /\ WithNativeDetails(tasks[n].movie, entries[i + n])
               /\ (tasks[n].pos = "done" /\ tasks[n].how.by = "unreachable") =>
                      tasks[n].movie = Spread(entries[i + n], EmptyMeta)
    /\ InLbStage =>
           \A n \in Indices(result) : WithNativeDetails(result[n], entries[n])
    /\ InTrail("nativeDone") =>
           /\ Len(entries) = Len(byUri)
           /\ \A n \in Indices(entries) : WithNativeDetails(entries[n], byUri[n])
    /\ \A n \in Indices(responses) :
           /\ Len(responses[n].body.movies) = Len(byUri)
           /\ \A m \in Indices(byUri) :
                  LET movie == responses[n].body.movies[m]
                  IN  /\ NativeFields \subseteq DOMAIN movie
                      /\ \E meta \in {EmptyMeta, ScrapedMeta} :
                             \A f \in NativeFields : movie[f] = meta[f]
                      /\ DOMAIN movie \cap (Markers \cup {"tmdb_id"}) # {}

\* the first film of two was unreachable and the second scraped; the
\* provider then matched the first
C28_Witness ==
    /\ Len(byUri) = 2 /\ Len(responses) = 1
    /\ responses[1].body.movies[1].lbCast = <<>>
    /\ responses[1].body.movies[1].lbPosterUrl = "null"
    /\ Has(responses[1].body.movies[1], "tmdb_id")
    /\ responses[1].body.movies[2].lbCast # <<>>

\* a film is unreachable in the first chunk, a film of the second chunk is
\* being scraped
C28_WitnessNextChunk ==
    /\ pc = "lbChunk" /\ i = CHUNK_SIZE /\ tasks[1].pos = "scrape"
    /\ result[2].lbCast = <<>> /\ result[3].lbCast # <<>>

---------------------------------------------------------------------------
(* What a failure leaves in the store, and what a later run makes of it *)

\* the value a task that ended the given way attaches and caches
FailureValue(way) ==
    IF way = "failed" THEN [error |-> TRUE]
    ELSE IF way = "exhausted" THEN [notFound |-> TRUE]
    ELSE EmptyMeta

FailureWays(stage) == IF stage = "lb" THEN {"unreachable"} ELSE {"failed", "exhausted"}

\* the task of the record in a later run, up to its first await
LaterStart(stage, record) == IF stage = "lb" THEN LbStart(record) ELSE TmdbStart(record)

\* that task after its cache get has settled with outcome o
LaterAfterGet(stage, record, o) ==
    IF stage = "lb" THEN LbAfterGet(LaterStart(stage, record), o)
    ELSE TmdbAfterGet(LaterStart(stage, record), o)

\* a run without forceRefresh that comes to the record at time t, the
\* entry of the key having been set now with the ttl of the stage, finds
\* the value and returns the record with it without a network call
ServedLater(stage, record, t) ==
    LET key == StageKey(stage, record)
        exp == [k \in {key} |-> now + TtlOf(stage)]
        found == {o \in GetOutcomesAt(redis, exp, key, t) : o.kind # "throw"}
    IN  /\ LaterStart(stage, record).pos = "cacheGet"
        /\ found = {[kind |-> "hit", value |-> redis[key]]}
        /\ \A o \in found :
               LaterAfterGet(stage, record, o)
                   = Task("done", Spread(record, redis[key]), NoVal, Cached(redis[key]))

\* C29: a task that ends with a failed provider call, without a match or
\* on unreachable pages sets { error: true }, { notFound: true } or the
\* all-empty native detail under the record's key, with the ttl of thirty
\* days; when the set has succeeded the store holds that value, and a run
\* without forceRefresh at any time before the thirty days have passed
\* gets it from the store and attaches it without a network call.
C29_FailuresAreCached ==
    (InChunk /\ ~forceRefresh) =>
        \A n \in Indices(tasks) :
            LET t == tasks[n]
                ops == OpsOf(StageNow, t)
                record == entries[i + n]
                key == StageKey(StageNow, record)
            IN  (t.pos = "done" /\ t.how.by \in FailureWays(StageNow)) =>
                    /\ Len(ops) >= 2
                    /\ ops[Len(ops) - 1] = Kind(StageNow, "cacheSet")
                    /\ t.how.value = FailureValue(t.how.by)
                    /\ TtlOf(StageNow) = ThirtyDays
                    /\ ops[Len(ops)] = "ok" =>
                           /\ key \in DOMAIN redis
                           /\ redis[key] = FailureValue(t.how.by)
                           /\ \A later \in {now, now + 1, now + ThirtyDays - 1} :
                                  ServedLater(StageNow, record, later)

\* a provider call failed for the second film and { error: true } is in
\* the store under its key
C29_Witness ==
    /\ pc = "tmdbChunk" /\ Len(tasks) = 2
    /\ tasks[2].pos = "done" /\ tasks[2].how.by = "failed"
    /\ OpsOf("tmdb", tasks[2]) = <<"get:tmdb", "provider", "set:tmdb", "ok">>
    /\ redis[buildFilmTmdbCacheKey(entries[2])] = [error |-> TRUE]

\* no match was found for the second film
C29_WitnessNotFound ==
    /\ pc = "tmdbChunk" /\ Len(tasks) = 2
    /\ tasks[2].pos = "done" /\ tasks[2].how.by = "exhausted"
    /\ redis[buildFilmTmdbCacheKey(entries[2])] = [notFound |-> TRUE]

\* the pages of the second film were unreachable
C29_WitnessUnreachable ==
    /\ pc = "lbChunk" /\ Len(tasks) = 2
    /\ tasks[2].pos = "done" /\ tasks[2].how.by = "unreachable"
    /\ OpsOf("lb", tasks[2]) = <<"get:lb", "native", "set:lb", "ok">>
    /\ redis[buildFilmLetterboxdCacheKey("/film/b/")] = EmptyMeta

---------------------------------------------------------------------------
(* The provider outcome of a record of a response *)

\* the outcomes a record carries: the fields of a match, or a marker
OutcomesOf(movie) ==
    (IF ProviderMatchFields \subseteq DOMAIN movie THEN {"match"} ELSE {})
        \cup {m \in Markers : Has(movie, m) /\ movie[m] = TRUE}

\* no field of a match without all of them, no marker that is not true
NoPartialOutcome(movie) ==
    /\ DOMAIN movie \cap ProviderMatchFields \in {{}, ProviderMatchFields}
    /\ \A m \in Markers : Has(movie, m) => movie[m] = TRUE

\* C30: every record of every 200 response with a list of movies carries
\* exactly one provider outcome: all the fields of a match, tmdb_id among
\* them, or notFound: true, or error: true.
C30_ExactlyOneOutcome ==
    \A n \in Indices(responses) :
        (responses[n].status = 200 /\ "movies" \in DOMAIN responses[n].body) =>
            \A m \in Indices(responses[n].body.movies) :
                /\ Cardinality(OutcomesOf(responses[n].body.movies[m])) = 1
                /\ NoPartialOutcome(responses[n].body.movies[m])

\* the list of a run is answered with: one record has the marker a value
\* of the store gave it, the other the fields of a match made in this run
C30_Witness ==
    /\ InTrail("tmdbDone") /\ Len(responses) = 1 /\ responses[1].status = 200
    /\ Len(responses[1].body.movies) = 2
    /\ \E a, b \in 1 .. 2 :
           /\ OutcomesOf(responses[1].body.movies[a]) = {"match"}
           /\ OutcomesOf(responses[1].body.movies[b]) \subseteq Markers
           /\ how[b].by = "cached" /\ how[a].by = "matched"

=============================================================================
